---- MODULE Spec2Model ----
(***************************************************************************)
(* Model of the ImageList browser extension (src/content.js,               *)
(* src/background.js): the DOM sweep extractImages with its asynchronous   *)
(* refinement tasks, the final normalisation / deduplication / size pass,  *)
(* the URL classifier getImageType, the binary sniffer                     *)
(* detectImageTypeByMagicNumber and the request/response message paths.    *)
(*                                                                         *)
(* URLs, types and attribute values are TLA+ strings; the string helpers   *)
(* below give the JavaScript String methods the code uses.                 *)
(***************************************************************************)
EXTENDS Integers, Sequences, FiniteSets, TLC

VARIABLES
  doc,        \* the document: the sequence of elements the sweep walks
  phase,      \* "init" before the sweep, "swept" once extractImages returned
  images,     \* the sweep's `images` array (records, mutated in place)
  result,     \* what extractImages returned: a list of indices into images, or undefined
  seenUrls,   \* the sweep's `seenUrls` set (async background tasks still use it)
  tasks,      \* the refinement tasks the sweep launched, with their outcome
  stored,     \* localStorage['pageImages']
  input,      \* argument of the pure function under check
  output      \* the results of its successive applications

vars == <<doc, phase, images, result, seenUrls, tasks, stored, input, output>>

sweepVars == <<doc, phase, images, result, seenUrls, tasks, stored>>

(***************************************************************************)
(* JavaScript String helpers                                               *)
(***************************************************************************)
UpperChars == "ABCDEFGHIJKLMNOPQRSTUVWXYZ"

LowerChars == "abcdefghijklmnopqrstuvwxyz"

CharAt(s, i) == SubSeq(s, i, i)

DropFirst(s, n) == SubSeq(s, n + 1, Len(s))

LowerChar(c) ==
  IF \E i \in 1..Len(UpperChars) : CharAt(UpperChars, i) = c
  THEN CharAt(LowerChars, CHOOSE i \in 1..Len(UpperChars) : CharAt(UpperChars, i) = c)
  ELSE c

RECURSIVE toLowerCase(_)
toLowerCase(s) ==
  IF s = "" THEN "" ELSE LowerChar(CharAt(s, 1)) \o toLowerCase(DropFirst(s, 1))

startsWith(s, p) == Len(s) >= Len(p) /\ SubSeq(s, 1, Len(p)) = p

\* First position >= from at which sub occurs in s, 0 when there is none.
IndexFrom(s, sub, from) ==
  LET hits == {i \in from..(Len(s) - Len(sub) + 1) : SubSeq(s, i, i + Len(sub) - 1) = sub}
  IN IF hits = {} THEN 0 ELSE CHOOSE i \in hits : \A j \in hits : i <= j

indexOf(s, sub) == IndexFrom(s, sub, 1)

includes(s, sub) == indexOf(s, sub) # 0

lastIndexOf(s, sub) ==
  LET hits == {i \in 1..(Len(s) - Len(sub) + 1) : SubSeq(s, i, i + Len(sub) - 1) = sub}
  IN IF hits = {} THEN 0 ELSE CHOOSE i \in hits : \A j \in hits : i >= j

\* s.split(sep) for a non-empty separator: always at least one part.
RECURSIVE split(_, _)
split(s, sep) ==
  LET i == indexOf(s, sep)
  IN IF i = 0 THEN <<s>>
     ELSE <<SubSeq(s, 1, i - 1)>> \o split(DropFirst(s, i + Len(sep) - 1), sep)

RECURSIVE join(_, _)
join(parts, sep) ==
  IF Len(parts) = 0 THEN ""
  ELSE IF Len(parts) = 1 THEN parts[1]
  ELSE parts[1] \o sep \o join(Tail(parts), sep)

RECURSIVE trim(_)
trim(s) ==
  IF s # "" /\ CharAt(s, 1) = " " THEN trim(DropFirst(s, 1))
  ELSE IF s # "" /\ CharAt(s, Len(s)) = " " THEN trim(SubSeq(s, 1, Len(s) - 1))
  ELSE s

\* parts[i] of a JavaScript array, "" standing for undefined (falsy like it).
PartOr(parts, i) == IF i <= Len(parts) THEN parts[i] ELSE ""

(***************************************************************************)
(* getImageType: the URL heuristic classifier                              *)
(***************************************************************************)
SupportedExtensions ==
  {"jpg", "png", "svg", "webp", "gif", "bmp", "ico", "tiff", "tif", "apng", "avif"}

\* url.match(/data:image\/(.*?);/) on a url that starts with data:image/ :
\* the text up to the first ';', or no match when no ';' follows.
DataUriSubtype(url) ==
  LET rest == DropFirst(url, Len("data:image/"))
      semi == indexOf(rest, ";")
  IN IF semi = 0 THEN "base64" ELSE SubSeq(rest, 1, semi - 1)

\* cleanUrl.match(/\.([^.]+)$/): the text after the last dot, "" when there is
\* no dot or nothing follows it.
\* A plausible slip: the extension compared as it is spelled.
ExtensionOfCaseKept(cleanUrl) ==
  LET dot == lastIndexOf(cleanUrl, ".")
  IN IF dot = 0 \/ dot = Len(cleanUrl) THEN "" ELSE DropFirst(cleanUrl, dot)

ExtensionOf(cleanUrl) ==
  LET dot == lastIndexOf(cleanUrl, ".")
  IN IF dot = 0 \/ dot = Len(cleanUrl) THEN "" ELSE toLowerCase(DropFirst(cleanUrl, dot))

KeywordType(urlLower) ==
  IF includes(urlLower, "jpg") \/ includes(urlLower, "jpeg") THEN "jpg"
  ELSE IF includes(urlLower, "png") THEN "png"
  ELSE IF includes(urlLower, "svg") THEN "svg"
  ELSE IF includes(urlLower, "webp") THEN "webp"
  ELSE IF includes(urlLower, "gif") THEN "gif"
  ELSE IF includes(urlLower, "bmp") THEN "bmp"
  ELSE IF includes(urlLower, "ico") THEN "ico"
  ELSE IF includes(urlLower, "tiff") \/ includes(urlLower, "tif") THEN "tiff"
  ELSE IF includes(urlLower, "apng") THEN "apng"
  ELSE IF includes(urlLower, "avif") THEN "avif"
  ELSE ""

ParamHint(p, fmt) == includes(p, "format=" \o fmt) \/ includes(p, "type=" \o fmt)

ParamType(url) ==
  LET p == toLowerCase(PartOr(split(url, "?"), 2))
  IN IF p = "" THEN ""
     ELSE IF ParamHint(p, "png") THEN "png"
     ELSE IF ParamHint(p, "jpg") \/ ParamHint(p, "jpeg") THEN "jpg"
     ELSE IF ParamHint(p, "webp") THEN "webp"
     ELSE IF ParamHint(p, "gif") THEN "gif"
     ELSE IF ParamHint(p, "avif") THEN "avif"
     ELSE IF ParamHint(p, "heic") THEN "heic"
     ELSE IF ParamHint(p, "heif") THEN "heic"
     ELSE ""

PathType(urlLower) ==
  IF includes(urlLower, "/png/") \/ includes(urlLower, "/images/png/")
     \/ includes(urlLower, "/img/png/") THEN "png"
  ELSE IF includes(urlLower, "/jpg/") \/ includes(urlLower, "/images/jpg/")
     \/ includes(urlLower, "/img/jpg/") \/ includes(urlLower, "/jpeg/")
     \/ includes(urlLower, "/images/jpeg/") \/ includes(urlLower, "/img/jpeg/") THEN "jpg"
  ELSE ""

\* The last resort: an 'image/<subtype>' token anywhere in the URL.
MimeType(urlLower) ==
  IF includes(urlLower, "image/jpeg") \/ includes(urlLower, "image/jpg") THEN "jpg"
  ELSE IF includes(urlLower, "image/png") THEN "png"
  ELSE IF includes(urlLower, "image/svg") THEN "svg"
  ELSE IF includes(urlLower, "image/webp") THEN "webp"
  ELSE IF includes(urlLower, "image/gif") THEN "gif"
  ELSE IF includes(urlLower, "image/bmp") THEN "bmp"
  ELSE IF includes(urlLower, "image/avif") THEN "avif"
  ELSE IF includes(urlLower, "image/tiff") THEN "tiff"
  ELSE IF includes(urlLower, "image/ico") THEN "ico"
  ELSE "unknown"

\* A plausible slip: the extension returned without the test that it is a
\* supported one.
getImageTypeAnyExtension(url) ==
  IF startsWith(url, "data:image/") THEN DataUriSubtype(url)
  ELSE
    LET extension == ExtensionOf(split(split(url, "?")[1], "#")[1])
        urlLower  == toLowerCase(url)
        early     == IF extension = "" THEN KeywordType(urlLower)
                     ELSE IF extension = "jpeg" THEN "jpg"
                     ELSE extension
    IN IF early # "" THEN early
       ELSE IF ParamType(url) # "" THEN ParamType(url)
       ELSE IF PathType(urlLower) # "" THEN PathType(urlLower)
       ELSE MimeType(urlLower)

getImageType(url) ==
  IF startsWith(url, "data:image/") THEN DataUriSubtype(url)
  ELSE
    LET cleanUrl  == split(split(url, "?")[1], "#")[1]
        extension == ExtensionOf(cleanUrl)
        urlLower  == toLowerCase(url)
        early     == IF extension = "" THEN KeywordType(urlLower)
                     ELSE IF extension = "jpeg" THEN "jpg"
                     ELSE IF extension \in SupportedExtensions THEN extension
                     ELSE ""
    IN IF early # "" THEN early
       ELSE IF ParamType(url) # "" THEN ParamType(url)
       ELSE IF PathType(urlLower) # "" THEN PathType(urlLower)
       ELSE MimeType(urlLower)

(***************************************************************************)
(* Source normalisation of the final pass                                  *)
(***************************************************************************)
TrackingParams ==
  {"utm_source", "utm_medium", "utm_campaign", "utm_term", "utm_content",
   "gclid", "fbclid", "msclkid", "mc_eid", "cid", "pid"}

\* The filter callback: a parameter is kept unless its lower-cased key is a
\* tracking parameter.
KeepParam(param) == toLowerCase(split(param, "=")[1]) \notin TrackingParams

\* A plausible slip: only an exact 'utm_source=x&' prefix is removed, so that a
\* tracking parameter in another position survives the pass.
NormalizeUrlFirstOnly(src) ==
  IF ~includes(src, "?") THEN src
  ELSE LET urlParts == split(src, "?")
           pairs    == split(urlParts[2], "&")
           kept     == IF KeepParam(pairs[1]) THEN pairs ELSE Tail(pairs)
       IN IF Len(kept) > 0 THEN urlParts[1] \o "?" \o join(kept, "&") ELSE urlParts[1]

NormalizeUrl(src) ==
  IF ~includes(src, "?") THEN src
  ELSE LET urlParts   == split(src, "?")
           baseUrl    == urlParts[1]
           params     == urlParts[2]
           paramPairs == SelectSeq(split(params, "&"), KeepParam)
       IN IF Len(paramPairs) > 0 THEN baseUrl \o "?" \o join(paramPairs, "&")
          ELSE baseUrl

(***************************************************************************)
(* The page: window.location, URL resolution, percent-decoding             *)
(***************************************************************************)
LocationProtocol == "http:"

LocationOrigin == "http://h"

LocationHref == "http://h/p"

\* window.location.href.replace(/[^/]+$/, '')
LocationDir == SubSeq(LocationHref, 1, lastIndexOf(LocationHref, "/"))

\* new URL(raw, window.location.href).href for the references the model's
\* documents carry: a scheme-relative reference whose host is malformed (an
\* unclosed '[') makes the constructor throw, every other reference resolves
\* against the page's scheme, origin or directory.
ResolveUrl(raw) ==
  IF startsWith(raw, "//")
  THEN IF includes(raw, "[") /\ ~includes(raw, "]") THEN [ok |-> FALSE, href |-> ""]
       ELSE [ok |-> TRUE, href |-> LocationProtocol \o raw]
  ELSE IF startsWith(raw, "/") THEN [ok |-> TRUE, href |-> LocationOrigin \o raw]
  ELSE [ok |-> TRUE, href |-> LocationDir \o raw]

IsAbsolute(url) == startsWith(url, "http") \/ startsWith(url, "data:")

\* The percent escapes the model's documents use.
Escapes == [e \in {"%20", "%3F", "%26"} |->
              IF e = "%20" THEN " " ELSE IF e = "%3F" THEN "?" ELSE "&"]

\* decodeURIComponent: a '%' that does not start a valid escape throws URIError.
RECURSIVE decodeURIComponent(_)
decodeURIComponent(s) ==
  IF s = "" THEN [ok |-> TRUE, val |-> ""]
  ELSE IF CharAt(s, 1) # "%"
  THEN LET r == decodeURIComponent(DropFirst(s, 1))
       IN [ok |-> r.ok, val |-> CharAt(s, 1) \o r.val]
  ELSE IF Len(s) >= 3 /\ SubSeq(s, 1, 3) \in DOMAIN Escapes
  THEN LET r == decodeURIComponent(DropFirst(s, 3))
       IN [ok |-> r.ok, val |-> Escapes[SubSeq(s, 1, 3)] \o r.val]
  ELSE [ok |-> FALSE, val |-> ""]

(***************************************************************************)
(* Documents                                                               *)
(*                                                                         *)
(* An element is a record; a field an element kind does not have is "" or  *)
(* <<0, 0>>.  src is img.src (already absolute, as the DOM property is) for *)
(* an img, the raw attribute (poster, href, data/src) for the other kinds, *)
(* and what toDataURL returns for a canvas.  Sizes are <<width, height>>,  *)
(* 0 standing for an absent or unparsable value.                           *)
(***************************************************************************)
NoSize == <<0, 0>>

Element(kind, src) ==
  [kind |-> kind, src |-> src, dataSrc |-> "", dataOriginal |-> "", srcset |-> "",
   alt |-> "", cls |-> "", title |-> "", typeAttr |-> "", natural |-> NoSize, display |-> NoSize,
   style |-> NoSize, attr |-> NoSize, data |-> NoSize, readable |-> TRUE, urls |-> <<>>]

Background(urls) == [Element("background", "") EXCEPT !.urls = urls]

(***************************************************************************)
(* Records and refinement tasks                                            *)
(***************************************************************************)
ImageRecord(src, alt, size, type, elementType) ==
  [src |-> src, alt |-> alt, width |-> size[1], height |-> size[2],
   type |-> type, elementType |-> elementType]

NoRecord == ImageRecord("", "", NoSize, "", "")

SetSize(rec, size) == [rec EXCEPT !.width = size[1], !.height = size[2]]

RasterTypes == {"jpg", "png", "gif", "webp", "bmp", "avif", "tiff", "ico", "heic"}

\* A launched asynchronous task.  kind: "coord" (getImageInfoCoordinated and
\* its then-callback), "svgImg" (the img loop's SVG fetch), "svgBg" (the
\* background loop's getSvgDimensionsFromUrl), "svgPost" (the post-pass SVG
\* fetch, which holds the record itself), "bgDetect" (the background loop's
\* content-type probe).  key is the source the callback searches for, idx the
\* record the callback holds by reference, owner the record the task was
\* launched for, snap the captured currentImage.  net and dims are what the
\* network will answer; done turns TRUE when the callback has run.
Task(kind, key, idx, owner, snap) ==
  [kind |-> kind, key |-> key, idx |-> idx, owner |-> owner, snap |-> snap,
   net |-> "", dims |-> NoSize, done |-> FALSE]

\* images.find(img => img.src === src): the first index, 0 for undefined.
FindBySrc(imgs, src) ==
  LET hits == {i \in 1..Len(imgs) : imgs[i].src = src}
  IN IF hits = {} THEN 0 ELSE CHOOSE i \in hits : \A j \in hits : i <= j


(***************************************************************************)
(* extractImages: the synchronous sweep.  The state threaded through the   *)
(* loops is [images, seen, tasks, returned]; returned turns TRUE when one  *)
(* of the loops executes a bare `return` (extractImages then evaluates to   *)
(* undefined and nothing after that statement runs).                       *)
(***************************************************************************)
SweepStart == [images |-> <<>>, seen |-> {}, tasks |-> <<>>, returned |-> FALSE]

Push(st, rec) == [st EXCEPT !.images = Append(@, rec)]

Launch(st, task) == [st EXCEPT !.tasks = Append(@, task)]

\* The cascade an img element's size goes through: natural size, else
\* displayed size, else style / width,height attributes / data attributes,
\* each dimension on its own.
FirstNonZero(a, b, c) == IF a # 0 THEN a ELSE IF b # 0 THEN b ELSE c

ImgDims(el) ==
  IF el.natural[1] # 0 /\ el.natural[2] # 0 THEN el.natural
  ELSE IF el.display[1] # 0 /\ el.display[2] # 0 THEN el.display
  ELSE <<FirstNonZero(el.style[1], el.attr[1], el.data[1]),
         FirstNonZero(el.style[2], el.attr[2], el.data[2])>>

\* The img loop's choice and clean-up of the source.
ImgSource(el) ==
  LET picked   == IF el.dataSrc # "" THEN el.dataSrc
                  ELSE IF el.dataOriginal # "" THEN el.dataOriginal
                  ELSE el.src
      resolved == IF picked # "" /\ ~IsAbsolute(picked)
                  THEN IF startsWith(picked, "//") THEN LocationProtocol \o picked
                       ELSE IF ResolveUrl(picked).ok THEN ResolveUrl(picked).href
                       ELSE LocationDir \o picked
                  ELSE picked
      decoded  == decodeURIComponent(resolved)
  IN IF decoded.ok THEN decoded.val ELSE resolved

NeedsCoordination(type) == type = "unknown" \/ type \in RasterTypes

\* srcset.split(',').map(item => item.trim().split(' ')[0])
SrcsetUrls(srcset) ==
  LET items == split(srcset, ",")
  IN [i \in 1..Len(items) |-> split(trim(items[i]), " ")[1]]

\* The forEach over a srcset: an unresolvable entry returns from the callback
\* only, so the loop goes on with the next entry.
\* A candidate whose size is not known yet, classified by its URL.
Candidate(fullUrl, alt, elementType) ==
  ImageRecord(fullUrl, alt, NoSize, getImageType(fullUrl), elementType)

\* let fullUrl = raw; if it is not absolute, new URL(raw, location.href).href.
FullUrl(raw) == IF IsAbsolute(raw) THEN raw ELSE ResolveUrl(raw).href

Resolvable(raw) == IsAbsolute(raw) \/ ResolveUrl(raw).ok

SrcsetEntry(st, sourceUrl, alt, elementType) ==
  IF sourceUrl = "" \/ sourceUrl \in st.seen THEN st
  ELSE IF ~Resolvable(sourceUrl) THEN [st EXCEPT !.seen = @ \cup {sourceUrl}]
  ELSE Push([st EXCEPT !.seen = @ \cup {sourceUrl}],
            Candidate(FullUrl(sourceUrl), alt, elementType))

RECURSIVE SrcsetLoop(_, _, _, _)
SrcsetLoop(st, urls, alt, elementType) ==
  IF urls = <<>> THEN st
  ELSE SrcsetLoop(SrcsetEntry(st, Head(urls), alt, elementType), Tail(urls),
                  alt, elementType)

\* The tasks a new record launches, then the push.  rec is the record as
\* pushed; svgTask is the kind of the SVG size task for this loop, "" when the
\* loop launches none for this record.
LaunchAndPush(st, rec, svgTask) ==
  LET own == Len(st.images) + 1
      st1 == IF svgTask # "" THEN Launch(st, Task(svgTask, rec.src, 0, own, NoRecord))
             ELSE st
      st2 == IF NeedsCoordination(rec.type) THEN Launch(st1, Task("coord", rec.src, 0, own, rec))
             ELSE st1
  IN Push(st2, rec)

ImgRecordStep(st, rec) ==
  IF rec.src = "" \/ rec.src \in st.seen THEN st
  ELSE LaunchAndPush([st EXCEPT !.seen = @ \cup {rec.src}], rec,
         IF /\ rec.type = "svg" /\ rec.width = 0 /\ rec.height = 0
            /\ ~startsWith(rec.src, "data:image/svg+xml")
         THEN "svgImg" ELSE "")

LazySrcset(st, el) ==
  IF el.srcset # "" THEN SrcsetLoop(st, SrcsetUrls(el.srcset), el.alt, "img-lazy") ELSE st

ImgRecord(el, src) == ImageRecord(src, el.alt, ImgDims(el), getImageType(src), "img")

ImgStep(st, el) == LazySrcset(ImgRecordStep(st, ImgRecord(el, ImgSource(el))), el)

CanvasStep(st, el) ==
  IF el.readable /\ el.src # "" /\ startsWith(el.src, "data:image/") /\ el.src \notin st.seen
  THEN Push([st EXCEPT !.seen = @ \cup {el.src}],
            ImageRecord(el.src, el.alt, el.display, "png", "canvas"))
  ELSE st

\* The shape the picture/source src attribute, the video poster, the
\* object/embed, the preload link and the svg image loops share: a for..of
\* body whose catch block is a bare `return`.
AttributeStep(st, raw, elementType) ==
  IF raw = "" \/ raw \in st.seen THEN st
  ELSE IF ~Resolvable(raw) THEN [st EXCEPT !.seen = @ \cup {raw}, !.returned = TRUE]
  ELSE Push([st EXCEPT !.seen = @ \cup {raw}], Candidate(FullUrl(raw), "", elementType))

SourceStep(st, el) ==
  LET st1 == IF el.srcset # "" THEN SrcsetLoop(st, SrcsetUrls(el.srcset), "", "source")
             ELSE st
  IN AttributeStep(st1, el.src, "source")

LooksLikeImage(el) ==
  \/ includes(el.typeAttr, "image/")
  \/ \E ext \in {".jpg", ".jpeg", ".png", ".gif", ".webp", ".svg"} : includes(el.src, ext)

ObjectStep(st, el) ==
  IF el.src # "" /\ el.src \notin st.seen /\ LooksLikeImage(el)
  THEN AttributeStep(st, el.src, el.kind)
  ELSE st

\* One url of a background-image value.
BackgroundRecordStep(st, rec) ==
  IF includes(rec.src, "svg") \/ includes(rec.src, "SVG")
  THEN Launch(st, Task("bgDetect", rec.src, 0, 0, NoRecord))
  ELSE IF rec.src \in st.seen THEN st
  ELSE LaunchAndPush([st EXCEPT !.seen = @ \cup {rec.src}], rec,
                     IF rec.type = "svg" THEN "svgBg" ELSE "")

BackgroundUrl(st, raw) ==
  IF raw = "" \/ ~Resolvable(raw) THEN st
  ELSE BackgroundRecordStep(st, Candidate(FullUrl(raw), "", "background"))

RECURSIVE BackgroundUrls(_, _)
BackgroundUrls(st, urls) ==
  IF urls = <<>> THEN st ELSE BackgroundUrls(BackgroundUrl(st, Head(urls)), Tail(urls))

\* getComputedStyle throwing is caught per element.
BackgroundStep(st, el) == IF el.readable THEN BackgroundUrls(st, el.urls) ELSE st

ElementStep(st, el) ==
  IF st.returned THEN st
  ELSE IF el.kind = "img" THEN ImgStep(st, el)
  ELSE IF el.kind = "canvas" THEN CanvasStep(st, el)
  ELSE IF el.kind = "source" THEN SourceStep(st, el)
  ELSE IF el.kind = "video" THEN AttributeStep(st, el.src, "video-poster")
  ELSE IF el.kind \in {"object", "embed"} THEN ObjectStep(st, el)
  ELSE IF el.kind = "preload" THEN AttributeStep(st, el.src, "preload")
  ELSE IF el.kind = "svg-image" THEN AttributeStep(st, el.src, "svg-image")
  ELSE BackgroundStep(st, el)

RECURSIVE Loop(_, _)
Loop(st, els) == IF els = <<>> THEN st ELSE Loop(ElementStep(st, Head(els)), Tail(els))

OfKind(d, kinds) == SelectSeq(d, LAMBDA el : el.kind \in kinds)

\* The loops in the order extractImages runs them; every element carries a
\* computed style, so the background loop walks the whole document.
ExtractionLoops(d) ==
  LET asBackground == [i \in 1..Len(d) |->
                         IF d[i].kind = "background" THEN d[i]
                         ELSE Background(<<>>)]
  IN OfKind(d, {"img"}) \o OfKind(d, {"canvas"}) \o OfKind(d, {"source"})
     \o OfKind(d, {"video"}) \o OfKind(d, {"object", "embed"}) \o OfKind(d, {"preload"})
     \o OfKind(d, {"svg-image"}) \o asBackground


(***************************************************************************)
(* The synchronous post-pass over `images` (forEach after the loops)       *)
(***************************************************************************)
\* Array.from(imgElements).find(p): the matching img elements, first one first.
ImgsWithSrc(d, src) == SelectSeq(OfKind(d, {"img"}), LAMBDA el : el.src = src)

\* ... matching src, data-src or data-original.
ImgsWithAnySrc(d, src) ==
  SelectSeq(OfKind(d, {"img"}),
            LAMBDA el : el.src = src \/ el.dataSrc = src \/ el.dataOriginal = src)

\* The type clue read from className, alt and title of the img element.
HintType(el) ==
  LET combinedText == toLowerCase(el.cls \o " " \o el.alt \o " " \o el.title)
  IN IF includes(combinedText, "png") THEN "png"
     ELSE IF includes(combinedText, "jpg") \/ includes(combinedText, "jpeg") THEN "jpg"
     ELSE IF includes(combinedText, "gif") THEN "gif"
     ELSE IF includes(combinedText, "webp") THEN "webp"
     ELSE IF includes(combinedText, "svg") THEN "svg"
     ELSE IF includes(combinedText, "bmp") THEN "bmp"
     ELSE IF includes(combinedText, "avif") THEN "avif"
     ELSE "unknown"

PostType(d, rec) ==
  IF rec.type # "unknown" THEN rec.type
  ELSE IF getImageType(rec.src) # "unknown" THEN getImageType(rec.src)
  ELSE LET found == ImgsWithSrc(d, rec.src)
       IN IF rec.elementType = "img" /\ found # <<>> THEN HintType(Head(found))
          ELSE "unknown"

\* naturalWidth/Height, else width/height, of the img element whose src is the
\* record's source: the SVG branch of the post-pass.
SvgImgElementDims(d, rec, size) ==
  LET found == ImgsWithSrc(d, rec.src)
  IN IF found = <<>> THEN size
     ELSE IF Head(found).natural[1] # 0 /\ Head(found).natural[2] # 0 THEN Head(found).natural
     ELSE IF Head(found).display[1] # 0 /\ Head(found).display[2] # 0 THEN Head(found).display
     ELSE size

\* width/height attributes of the svg <image> elements whose href is the
\* record's source; both must be present and positive to be taken.
RECURSIVE SvgImageAttrDims(_, _)
SvgImageAttrDims(els, size) ==
  IF els = <<>> THEN size
  ELSE SvgImageAttrDims(Tail(els),
         IF Head(els).attr[1] > 0 /\ Head(els).attr[2] > 0 THEN Head(els).attr ELSE size)

\* The size the post-pass gives a record whose width and height are both 0.
PostDims(d, rec, type) ==
  LET lazyHit == ImgsWithAnySrc(d, rec.src)
      a == IF rec.elementType \in {"img", "img-lazy"} /\ lazyHit # <<>>
           THEN ImgDims(Head(lazyHit)) ELSE NoSize
      b == IF type = "svg" /\ ~startsWith(rec.src, "data:image/svg+xml")
           THEN LET fromImg == SvgImgElementDims(d, rec, a)
                IN IF rec.elementType = "svg-image"
                   THEN SvgImageAttrDims(
                          SelectSeq(d, LAMBDA el : el.kind = "svg-image" /\ el.src = rec.src),
                          fromImg)
                   ELSE fromImg
           ELSE IF type # "svg" /\ rec.elementType = "canvas"
           THEN LET cv == SelectSeq(d, LAMBDA el : el.kind = "canvas" /\ el.readable
                                                   /\ el.src = rec.src)
                IN IF cv = <<>> THEN a ELSE Head(cv).display
           ELSE a
  IN b

\* The record after its forEach callback, given the type the first half of
\* the callback arrived at.
PostRecord(d, rec, type) ==
  IF rec.width = 0 /\ rec.height = 0
  THEN SetSize([rec EXCEPT !.type = type], PostDims(d, rec, type))
  ELSE [rec EXCEPT !.type = type]

\* The callback's last resort for an SVG that still has no size: a fetch
\* whose callback holds the record itself.
PostLaunch(st, i, before, after) ==
  IF /\ before.width = 0 /\ before.height = 0
     /\ after.width = 0 /\ after.height = 0
     /\ after.type = "svg" /\ ~startsWith(after.src, "data:image/svg+xml")
  THEN Launch([st EXCEPT !.images[i] = after], Task("svgPost", "", i, i, NoRecord))
  ELSE [st EXCEPT !.images[i] = after]

RECURSIVE PostPass(_, _, _)
PostPass(d, st, i) ==
  IF i > Len(st.images) THEN st
  ELSE PostPass(d, PostLaunch(st, i, st.images[i],
                              PostRecord(d, st.images[i], PostType(d, st.images[i]))),
                i + 1)

(***************************************************************************)
(* The final pass: size filter, normalisation, deduplication               *)
(***************************************************************************)
minWidth == 10

minHeight == 10

PassesSizeFilter(rec) ==
  (rec.width >= minWidth \/ rec.height >= minHeight) \/ (rec.width = 0 /\ rec.height = 0)

\* A plausible slip: duplicates are looked up by the source before it was
\* normalised.
FinalStepRawDedup(fp, i, normalizedUrl) ==
  IF PassesSizeFilter(fp.images[i]) /\ fp.images[i].src \notin fp.unique
  THEN [images |-> [fp.images EXCEPT ![i].src = normalizedUrl],
        unique |-> fp.unique \cup {fp.images[i].src},
        kept   |-> Append(fp.kept, i)]
  ELSE fp

\* fp is [images, unique, kept]: kept lists the indices pushed to
\* filteredImages, whose elements are the very objects of `images`.
FinalStep(fp, i, normalizedUrl) ==
  IF PassesSizeFilter(fp.images[i]) /\ normalizedUrl \notin fp.unique
  THEN [images |-> [fp.images EXCEPT ![i].src = normalizedUrl],
        unique |-> fp.unique \cup {normalizedUrl},
        kept   |-> Append(fp.kept, i)]
  ELSE fp

RECURSIVE FinalPass(_, _)
FinalPass(fp, i) ==
  IF i > Len(fp.images) THEN fp
  ELSE FinalPass(FinalStep(fp, i, NormalizeUrl(fp.images[i].src)), i + 1)

Undefined == [kind |-> "undefined", idx |-> <<>>]

\* The canvas loop's alt text counts the document's canvases.
Digits == "0123456789"

WithCanvasAlt(d) ==
  LET n == Len(OfKind(d, {"canvas"}))
  IN [i \in 1..Len(d) |->
        IF d[i].kind = "canvas"
        THEN [d[i] EXCEPT !.alt = "Canvas Image " \o CharAt(Digits, n + 1)]
        ELSE d[i]]

\* return filteredImages
ReturnList(posted, final) ==
  [images |-> final.images, seen |-> posted.seen, tasks |-> posted.tasks,
   result |-> [kind |-> "list", idx |-> final.kept]]

Finish(posted) ==
  ReturnList(posted, FinalPass([images |-> posted.images, unique |-> {}, kept |-> <<>>], 1))

AfterLoops(d, looped) ==
  IF looped.returned
  THEN [images |-> looped.images, seen |-> looped.seen, tasks |-> looped.tasks,
        result |-> Undefined]
  ELSE Finish(PostPass(d, looped, 1))

extractImages(d) == AfterLoops(d, Loop(SweepStart, ExtractionLoops(WithCanvasAlt(d))))


(***************************************************************************)
(* Refinement: what the network answers, and the callbacks                 *)
(***************************************************************************)
\* What the try block of getImageTypeByFetch comes to: "rejected" when it
\* threw (no response, an opaque response without a usable content type, a
\* failed body read), otherwise the value it returned, the sniffer's verdict
\* on the body among them.
SniffVerdicts == {"unknown", "jpg", "png"}

\* The catch block's scan of the URL for an image/<subtype> token.
UrlFallback(urlLower) ==
  IF includes(urlLower, "image/jpeg") \/ includes(urlLower, "image/jpg") THEN "jpg"
  ELSE IF includes(urlLower, "image/png") THEN "png"
  ELSE IF includes(urlLower, "image/gif") THEN "gif"
  ELSE IF includes(urlLower, "image/webp") THEN "webp"
  ELSE IF includes(urlLower, "image/bmp") THEN "bmp"
  ELSE IF includes(urlLower, "image/svg") THEN "svg"
  ELSE IF includes(urlLower, "image/avif") THEN "avif"
  ELSE IF includes(urlLower, "image/tiff") THEN "tiff"
  ELSE IF includes(urlLower, "image/ico") THEN "ico"
  ELSE "unknown"

\* A plausible slip: no catch block, so that what the try block throws
\* rejects the promise ("rejected" as the value stands for that).
getImageTypeByFetchUncaught(url, net) == net

getImageTypeByFetch(url, net) ==
  IF net = "rejected" THEN UrlFallback(toLowerCase(url)) ELSE net

\* What one fetch attempt settles to: a response (ok, not ok, or opaque), a
\* rejection, or the abort of the 5 s timer, which aborts the controller both
\* attempts share.
AttemptOutcomes == {"ok", "notOk", "opaque", "rejected", "aborted"}

IsResponse(outcome) == outcome \in {"ok", "notOk", "opaque"}

\* for (const config of fetchConfigs): response after the loop is the last
\* response an attempt resolved to, "none" when every attempt rejected.
ResponseAfter(log) ==
  IF \E k \in 1..Len(log) : IsResponse(log[k])
  THEN log[CHOOSE k \in 1..Len(log) :
             IsResponse(log[k]) /\ \A j \in (k + 1)..Len(log) : ~IsResponse(log[j])]
  ELSE "none"

OpaqueTypes == {"jpg", "png", "gif", "webp", "bmp", "svg+xml", "avif", "tiff", "ico"}

\* type.replace('+xml', '')
WithoutXml(type) ==
  LET i == indexOf(type, "+xml")
  IN IF i = 0 THEN type ELSE SubSeq(type, 1, i - 1) \o DropFirst(type, i + 3)

\* The opaque branch: the tag the Content-Type header gives, "rejected" when
\* the branch throws; contentType "" stands for a header that is not there.
OpaqueType(contentType) ==
  LET type == toLowerCase(DropFirst(contentType, indexOf(contentType, "image/") + 5))
  IN IF contentType = "" \/ ~startsWith(contentType, "image/") THEN "rejected"
     ELSE IF type = "jpeg" THEN "jpg"
     ELSE IF type \in OpaqueTypes THEN WithoutXml(type)
     ELSE "rejected"

\* What parseSvgDimensions makes of a fetched SVG; <<0, 0>> also stands for a
\* failed fetch, which getSvgDimensionsFromUrl turns into {0, 0}.
SvgSizes == {NoSize, <<120, 80>>}

\* The outcomes the environment can choose for a task.
OutcomesFor(task) ==
  IF task.kind = "coord"
  THEN {[net |-> n, dims |-> z] :
          n \in SniffVerdicts \cup {"rejected"},
          z \in IF task.snap.type = "svg" THEN SvgSizes ELSE {NoSize}}
  ELSE IF task.kind = "bgDetect"
  THEN {[net |-> "svg", dims |-> z] : z \in SvgSizes}
       \cup {[net |-> n, dims |-> NoSize] : n \in {"svgNoText", "other", "rejected"}}
  ELSE {[net |-> "ok", dims |-> z] : z \in SvgSizes}

\* The task once its promise has settled with outcome o.
Settled(task, o) == [task EXCEPT !.net = o.net, !.dims = o.dims, !.done = TRUE]

Positive(size) == size[1] > 0 /\ size[2] > 0

\* A plausible slip: the detected type is merged without the 'unknown' guard.
getImageInfoCoordinatedUnguarded(initialImage, detectedType, dimensions) ==
  [initialImage EXCEPT
     !.type   = detectedType,
     !.width  = IF Positive(dimensions) THEN dimensions[1] ELSE @,
     !.height = IF Positive(dimensions) THEN dimensions[2] ELSE @]

\* getImageInfoCoordinated once both promises have settled: a copy of
\* initialImage with the detected type and size merged in.
getImageInfoCoordinated(initialImage, detectedType, dimensions) ==
  [initialImage EXCEPT
     !.type   = IF detectedType # "unknown" THEN detectedType ELSE @,
     !.width  = IF Positive(dimensions) THEN dimensions[1] ELSE @,
     !.height = IF Positive(dimensions) THEN dimensions[2] ELSE @]

\* localStorage.getItem('pageImages'): null, a JSON list, or text that
\* JSON.parse rejects.
NoSlot == [kind |-> "null", recs |-> <<>>]

InvalidSlot == [kind |-> "invalid", recs |-> <<>>]

ListSlot(recs) == [kind |-> "list", recs |-> recs]

\* The read-modify-write of the slot the callbacks share: the stored record
\* with the given source is replaced and the list written back; a null or
\* unparsable slot, or no such record, leaves the slot alone.
AssignInSlot(slot, src, updatedImage) ==
  LET i == FindBySrc(slot.recs, src)
  IN IF slot.kind = "list" /\ i # 0
     THEN ListSlot([slot.recs EXCEPT ![i] = updatedImage])
     ELSE slot

ResizeInSlot(slot, src, size) ==
  LET i == FindBySrc(slot.recs, src)
  IN IF slot.kind = "list" /\ i # 0
     THEN ListSlot([slot.recs EXCEPT ![i] = SetSize(@, size)])
     ELSE slot

\* The callbacks work on env = [images, seen, stored].

\* .then(updatedImage => ...) after getImageInfoCoordinated: Object.assign
\* copies every field of updatedImage onto the record found by source.
CoordThen(env, src, currentImage, updatedImage) ==
  LET existing == FindBySrc(env.images, src)
  IN IF /\ \/ updatedImage.type # currentImage.type
           \/ updatedImage.width # currentImage.width
           \/ updatedImage.height # currentImage.height
        /\ existing # 0
     THEN [env EXCEPT !.images[existing] = updatedImage,
                      !.stored = AssignInSlot(@, src, updatedImage)]
     ELSE env

CoordCallback(env, task) ==
  CoordThen(env, task.key, task.snap,
            getImageInfoCoordinated(task.snap,
              getImageTypeByFetch(task.key, task.net),
              IF task.snap.type = "svg" THEN task.dims ELSE NoSize))

\* The img loop's fetch of an SVG source.
SvgImgCallback(env, task) ==
  LET existing == FindBySrc(env.images, task.key)
  IN IF Positive(task.dims) /\ existing # 0
     THEN [env EXCEPT !.images[existing] = SetSize(@, task.dims),
                      !.stored = ResizeInSlot(@, task.key, task.dims)]
     ELSE env

\* The background loop's getSvgDimensionsFromUrl(url).then(...).
SvgBgCallback(env, task) ==
  LET existing == FindBySrc(env.images, task.key)
  IN IF Positive(task.dims) /\ existing # 0
     THEN [env EXCEPT !.images[existing] = SetSize(@, task.dims)]
     ELSE env

\* The post-pass fetch: the callback holds the record itself and looks the
\* stored copy up by the source the record has when the callback runs.
SvgPostCallback(env, task) ==
  IF Positive(task.dims)
  THEN [env EXCEPT !.images[task.idx] = SetSize(@, task.dims),
                   !.stored = ResizeInSlot(@, env.images[task.idx].src, task.dims)]
  ELSE env

\* The background loop's probe of a url that contains 'svg': a confirmed SVG
\* or a rejected fetch pushes a record, unless the url was seen meanwhile.
\* (The response.text() step in between is folded into the same step.)
BgDetectCallback(env, task) ==
  LET url == task.key
      add(rec) == [env EXCEPT !.seen = @ \cup {url}, !.images = Append(@, rec)]
  IN IF task.net = "other" \/ url \in env.seen THEN env
     ELSE IF task.net = "svg"
     THEN add(ImageRecord(url, "", task.dims, "svg", "background"))
     ELSE IF task.net = "svgNoText"
     THEN add(ImageRecord(url, "", NoSize, "svg", "background"))
     ELSE add(ImageRecord(url, "", NoSize, getImageType(url), "background"))

Callback(env, task) ==
  IF task.kind = "coord" THEN CoordCallback(env, task)
  ELSE IF task.kind = "svgImg" THEN SvgImgCallback(env, task)
  ELSE IF task.kind = "svgBg" THEN SvgBgCallback(env, task)
  ELSE IF task.kind = "svgPost" THEN SvgPostCallback(env, task)
  ELSE BgDetectCallback(env, task)

\* The list extractImages returned: its elements are objects of `images`.
Returned == [i \in 1..Len(result.idx) |-> images[result.idx[i]]]

\* JSON.stringify of what extractImages returned, as stored by setItem:
\* undefined is stored as the text 'undefined', which does not parse.
Serialized(sw) ==
  IF sw.result.kind = "list"
  THEN ListSlot([i \in 1..Len(sw.result.idx) |-> sw.images[sw.result.idx[i]]])
  ELSE InvalidSlot


(***************************************************************************)
(* The documents the sweep is checked on                                   *)
(***************************************************************************)
MaxElements == 2

Img(src, alt) == [Element("img", src) EXCEPT !.alt = alt]

Elements ==
  { \* a loaded image whose source carries a tracking parameter
    [Img("http://h/a?utm_source=x", "A") EXCEPT !.natural = <<100, 100>>],
    \* a lazy image: placeholder not loaded, relative data-src
    [Img("http://h/z", "L") EXCEPT !.dataSrc = "a"],
    \* a loaded image
    [Img("http://h/a", "P") EXCEPT !.natural = <<100, 100>>],
    \* no extension, no size, class name says svg
    [Img("http://h/d", "H") EXCEPT !.cls = "icon svg"],
    \* percent-encoded source, height attribute only, a data-srcset
    [Img("http://h/e%3Futm_source=x", "E") EXCEPT !.attr = <<0, 5>>,
                                                  !.srcset = "a 1x, //[ 2x"],
    \* a 5x5 image
    [Img("http://h/b.png", "T") EXCEPT !.natural = <<5, 5>>],
    \* an SVG image that has not loaded
    Img("http://h/c.svg", "S"),
    [Element("canvas", "data:image/png;base64,AA") EXCEPT !.display = <<50, 50>>],
    [Element("canvas", "") EXCEPT !.readable = FALSE],
    [Element("source", "") EXCEPT !.srcset = "/b.png 1x, a 2x"],
    Element("video", "//["),
    Element("video", "/b.png"),
    Element("object", "/b.png"),
    Element("preload", "http://h/a?utm_source=x"),
    [Element("svg-image", "http://h/c.svg") EXCEPT !.attr = <<30, 30>>],
    Background(<<"http://h/a">>),
    [Background(<<"http://h/a">>) EXCEPT !.readable = FALSE],
    Background(<<"//[", "http://h/c.svg">>),
    Background(<<"http://h/x.Svg">>) }

\* Each loop of the sweep queries the elements of its own kind, in document
\* order: the order of two elements matters only within a kind, so documents
\* list their elements kind by kind.
KindOrder ==
  <<"img", "canvas", "source", "video", "object", "preload", "svg-image", "background">>

KindRank(kind) == CHOOSE r \in 1..Len(KindOrder) : KindOrder[r] = kind

KindByKind(d) == \A i, j \in 1..Len(d) : i < j => KindRank(d[i].kind) <= KindRank(d[j].kind)

RECURSIVE SeqsUpTo(_, _)
SeqsUpTo(S, n) ==
  IF n = 0 THEN {<<>>}
  ELSE SeqsUpTo(S, n - 1) \cup {Append(q, x) : q \in {r \in SeqsUpTo(S, n - 1) : Len(r) = n - 1}, x \in S}

Documents == {d \in SeqsUpTo(Elements, MaxElements) : KindByKind(d)}

(***************************************************************************)
(* The sweep and its tasks as a state machine                              *)
(***************************************************************************)
NoResult == [kind |-> "none", idx |-> <<>>]

Init ==
  /\ doc \in Documents
  /\ phase = "init"
  /\ images = <<>>
  /\ result = NoResult
  /\ seenUrls = {}
  /\ tasks = <<>>
  /\ stored = NoSlot
  /\ input = ""
  /\ output = <<>>

\* extractImages runs to completion and leaves its tasks pending.
SweepTo(sw, slot) ==
  /\ phase = "init"
  /\ images' = sw.images
  /\ result' = sw.result
  /\ seenUrls' = sw.seen
  /\ tasks' = sw.tasks
  /\ stored' = slot
  /\ phase' = "swept"
  /\ UNCHANGED <<doc, input, output>>

\* The onMessage listener's extractImages branch: the list goes to
\* sendResponse and the slot is not written.
MessageSweep == SweepTo(extractImages(doc), stored)

\* The load listener and the MutationObserver callback: the list is stored.
StoringSweep == SweepTo(extractImages(doc), Serialized(extractImages(doc)))

Env == [images |-> images, seen |-> seenUrls, stored |-> stored]

\* The promise of task i has settled as `settled` says and its callback has
\* taken the shared state to env.
TaskSettles(i, settled, env) ==
  /\ images' = env.images
  /\ seenUrls' = env.seen
  /\ stored' = env.stored
  /\ tasks' = [tasks EXCEPT ![i] = settled]
  /\ UNCHANGED <<doc, phase, result, input, output>>

Pending(i, kind) == phase = "swept" /\ tasks[i].kind = kind /\ ~tasks[i].done

\* A pending task settles, with an outcome the environment chooses, and its
\* callback runs: one action per kind of task.
CoordDone ==
  \E i \in 1..Len(tasks) :
    /\ Pending(i, "coord")
    /\ \E o \in OutcomesFor(tasks[i]) :
         TaskSettles(i, Settled(tasks[i], o), CoordCallback(Env, Settled(tasks[i], o)))

SvgImgDone ==
  \E i \in 1..Len(tasks) :
    /\ Pending(i, "svgImg")
    /\ \E o \in OutcomesFor(tasks[i]) :
         TaskSettles(i, Settled(tasks[i], o), SvgImgCallback(Env, Settled(tasks[i], o)))

SvgBgDone ==
  \E i \in 1..Len(tasks) :
    /\ Pending(i, "svgBg")
    /\ \E o \in OutcomesFor(tasks[i]) :
         TaskSettles(i, Settled(tasks[i], o), SvgBgCallback(Env, Settled(tasks[i], o)))

SvgPostDone ==
  \E i \in 1..Len(tasks) :
    /\ Pending(i, "svgPost")
    /\ \E o \in OutcomesFor(tasks[i]) :
         TaskSettles(i, Settled(tasks[i], o), SvgPostCallback(Env, Settled(tasks[i], o)))

BgDetectDone ==
  \E i \in 1..Len(tasks) :
    /\ Pending(i, "bgDetect")
    /\ \E o \in OutcomesFor(tasks[i]) :
         TaskSettles(i, Settled(tasks[i], o), BgDetectCallback(Env, Settled(tasks[i], o)))

Next ==
  \/ MessageSweep
  \/ StoringSweep
  \/ CoordDone
  \/ SvgImgDone
  \/ SvgBgDone
  \/ SvgPostDone
  \/ BgDetectDone

Spec == Init /\ [][Next]_vars


(***************************************************************************)
(* Properties of the sweep and its refinement tasks                        *)
(***************************************************************************)
Range(q) == {q[i] : i \in 1..Len(q)}

Swept == phase = "swept"

AllDone == Swept /\ \A t \in 1..Len(tasks) : tasks[t].done

ReturnedSources == {Returned[k].src : k \in 1..Len(Returned)}

\* C1: for every document extractImages returns a list; it never evaluates
\* to a non-list value, whatever URL fails to resolve and whatever computed
\* style cannot be read.
C1_AlwaysReturnsList == Swept => result.kind = "list"

\* C2: the completion of a refinement task never changes the type of a
\* record from a value other than 'unknown' to 'unknown'.
C2_TypeNeverRegresses ==
  [][Swept => \A i \in 1..Len(images) :
        images[i].type # "unknown" => images'[i].type # "unknown"]_vars

\* A coordinated task has completed with nothing detected while the record
\* with its source has a known type.
C2_Witness ==
  \E t \in 1..Len(tasks) :
    /\ tasks[t].kind = "coord" /\ tasks[t].done
    /\ getImageTypeByFetch(tasks[t].key, tasks[t].net) = "unknown"
    /\ FindBySrc(images, tasks[t].key) # 0
    /\ images[FindBySrc(images, tasks[t].key)].type \notin {"unknown", "svg"}

\* C3: the completion of a refinement task never takes a record whose width
\* and height are both positive to a width or height of 0.
C3_SizeNeverReset ==
  [][Swept => \A i \in 1..Len(images) :
        (images[i].width > 0 /\ images[i].height > 0)
          => (images'[i].width > 0 /\ images'[i].height > 0)]_vars

\* The record set after every callback has run in launch order, starting
\* from what the sweep left.
RECURSIVE RunAll(_, _)
RunAll(env, ts) == IF ts = <<>> THEN env ELSE RunAll(Callback(env, Head(ts)), Tail(ts))

InLaunchOrder ==
  RunAll([images |-> extractImages(doc).images, seen |-> extractImages(doc).seen,
          stored |-> NoSlot], tasks).images

TypeAndSize(imgs) ==
  {<<i, imgs[i].type, imgs[i].width, imgs[i].height>> : i \in 1..Len(extractImages(doc).images)}
  \cup {<<0, imgs[i].src, imgs[i].type, imgs[i].width, imgs[i].height>> :
          i \in (Len(extractImages(doc).images) + 1)..Len(imgs)}

\* C4: once every task has completed, type, width and height of every record
\* are what they are when the tasks complete in launch order, whatever order
\* they did complete in; and running a callback a second time changes nothing.
C4_OrderIndependent ==
  /\ AllDone => TypeAndSize(images) = TypeAndSize(InLaunchOrder)
  /\ Swept => \A t \in 1..Len(tasks) :
                Callback(Callback(Env, tasks[t]), tasks[t]) = Callback(Env, tasks[t])

OwnerRemoved(t) ==
  result.kind = "list" /\ tasks[t].owner # 0 /\ tasks[t].owner \notin Range(result.idx)

\* C5: the completion of a task whose own record is not in the returned list
\* leaves the returned list as it is.
C5_RemovedOwnerIsNoOp ==
  [][\A t \in 1..Len(tasks) :
        (Swept /\ OwnerRemoved(t) /\ ~tasks[t].done /\ tasks'[t].done)
          => Returned' = Returned]_vars


\* What the coordinated task t detected.
DetectedType(task) == getImageTypeByFetch(task.key, task.net)

\* C19: when a task launched for a record that is in the returned list
\* completes with a detected type other than 'unknown', the record has that
\* type afterwards, also when the final pass rewrote the record's source.
C19_TaskFindsItsRecord ==
  [][\A t \in 1..Len(tasks) :
        (/\ Swept /\ result.kind = "list" /\ tasks[t].kind = "coord"
         /\ tasks[t].owner \in Range(result.idx)
         /\ ~tasks[t].done /\ tasks'[t].done
         /\ DetectedType(tasks'[t]) # "unknown")
          => images'[tasks[t].owner].type = DetectedType(tasks'[t])]_vars

JustSwept == Swept /\ \A t \in 1..Len(tasks) : ~tasks[t].done

NoSourceTwice(ret) == \A k, l \in 1..Len(ret) : ret[k].src = ret[l].src => k = l

SameSource(a, b) == NormalizeUrl(a.src) = NormalizeUrl(b.src)

\* Record i passes the size filter and no record before it that passes has
\* the same normalised source.
FirstOfItsSource(imgs, i) ==
  /\ PassesSizeFilter(imgs[i])
  /\ \A j \in 1..(i - 1) : ~(PassesSizeFilter(imgs[j]) /\ SameSource(imgs[j], imgs[i]))

\* C6: the returned list holds no source twice; as returned, it holds exactly
\* the records that are the first among those passing the size filter to have
\* their normalised source, each under that normalised source.
C6_OnePerNormalizedSource ==
  (Swept /\ result.kind = "list") =>
    /\ NoSourceTwice(Returned)
    /\ JustSwept =>
         /\ \A i \in 1..Len(images) : i \in Range(result.idx) <=> FirstOfItsSource(images, i)
         /\ \A i \in Range(result.idx) : images[i].src = NormalizeUrl(images[i].src)
         /\ \A k, l \in 1..Len(result.idx) : k < l => result.idx[k] < result.idx[l]

\* Two records with different sources and the same normalised source, both
\* passing the size filter: the list has been returned with the first only.
C6_Witness ==
  /\ JustSwept /\ result.kind = "list"
  /\ \E i, j \in 1..Len(images) :
       /\ i < j /\ images[i].src # images[j].src /\ SameSource(images[i], images[j])
       /\ PassesSizeFilter(images[i]) /\ PassesSizeFilter(images[j])
       /\ i \in Range(result.idx) /\ j \notin Range(result.idx)

\* C7: as returned, a record none of whose duplicates is in the list (so it
\* was left out for its size) has both dimensions known and below the
\* minimum.
C7_ExcludedOnlyWhenBothKnown ==
  (JustSwept /\ result.kind = "list") =>
    \A i \in 1..Len(images) :
      NormalizeUrl(images[i].src) \notin ReturnedSources =>
        /\ images[i].width # 0 /\ images[i].height # 0
        /\ images[i].width < minWidth /\ images[i].height < minHeight

\* The background-image URLs of the elements whose computed style can be
\* read, each URL of a list on its own, as absolute URLs.
BackgroundUrlsOf(d) ==
  UNION {{FullUrl(d[i].urls[k]) :
            k \in {u \in 1..Len(d[i].urls) : d[i].urls[u] # "" /\ Resolvable(d[i].urls[u])}} :
         i \in {e \in 1..Len(d) : d[e].kind = "background" /\ d[e].readable}}

\* C24: as returned, the list holds a record for every background-image URL
\* of a readable element, a URL that contains 'svg' included; the record's
\* origin is 'background' unless a record of another origin has the same
\* source (deduplication).
C24_BackgroundUrlsReturned ==
  (JustSwept /\ result.kind = "list") =>
    \A url \in BackgroundUrlsOf(doc) :
      \E k \in 1..Len(Returned) :
        /\ Returned[k].src = NormalizeUrl(url)
        /\ \/ Returned[k].elementType = "background"
           \/ \E i \in 1..Len(images) :
                /\ images[i].elementType # "background"
                /\ NormalizeUrl(images[i].src) = NormalizeUrl(url)

(***************************************************************************)
(* Source normalisation on its own: the final pass's normalisation applied *)
(* to a source, and again to what it gave                                  *)
(***************************************************************************)
MaxChunks == 4

UrlChunks == {"a", "?", "&", "=", "utm_source", "Cid", "#"}

RECURSIVE Concat(_)
Concat(q) == IF q = <<>> THEN "" ELSE Head(q) \o Concat(Tail(q))

NormInputs ==
  {Concat(q) : q \in SeqsUpTo(UrlChunks, MaxChunks)}
  \cup {"https://site.com/a?utm_source=x&b=2", "https://site.com/a?utm_source=x&gclid=1&b=2"}

\* No sweep is in progress.
NoSweep ==
  /\ doc = <<>> /\ images = <<>> /\ result = NoResult
  /\ seenUrls = {} /\ tasks = <<>> /\ stored = NoSlot

InitNorm == NoSweep /\ phase = "normalize" /\ input \in NormInputs /\ output = <<>>

\* The normalisation is applied to the source, then to its own result.
Normalize ==
  /\ phase = "normalize" /\ Len(output) < 2
  /\ output' = Append(output, NormalizeUrl(IF output = <<>> THEN input ELSE output[Len(output)]))
  /\ UNCHANGED <<sweepVars, input>>

SpecNorm == InitNorm /\ [][Normalize]_vars

\* C8: normalising a normalised source gives the same source back, and
\* 'https://site.com/a?utm_source=x&b=2' normalises to 'https://site.com/a?b=2'.
C8_NormalizeIdempotent ==
  phase = "normalize" =>
    /\ Len(output) = 2 => output[2] = output[1]
    /\ (input = "https://site.com/a?utm_source=x&b=2" /\ Len(output) >= 1)
         => output[1] = "https://site.com/a?b=2"

\* A source that lost a tracking parameter and kept a query string has been
\* normalised twice.
C8_Witness ==
  /\ phase = "normalize" /\ Len(output) = 2
  /\ includes(input, "utm_source=") /\ ~includes(output[1], "utm_source")
  /\ includes(output[1], "?")

\* The listed keys as they occur in a source: every utm_ key, and the rest.
TrackingKeys == {"utm_", "gclid", "fbclid", "msclkid", "mc_eid", "cid", "pid"}

ContainsTrackingKey(src) == \E key \in TrackingKeys : includes(toLowerCase(src), key)

\* C29: a source that contains none of the tracking keys leaves the final
\* pass's normalisation character for character as it entered it, a source
\* with more than one '?' or with a fragment included.
C29_OnlyTrackingRemoved ==
  (phase = "normalize" /\ Len(output) >= 1 /\ ~ContainsTrackingKey(input))
    => output[1] = input

(***************************************************************************)
(* detectImageTypeByMagicNumber: the binary sniffer.  A buffer is the      *)
(* sequence of its bytes; the byte at offset k is buffer[k + 1].  A result *)
(* is [threw, value]: what the call returned, or that it threw.            *)
(***************************************************************************)
Returns(value) == [threw |-> FALSE, value |-> value]

Throws == [threw |-> TRUE, value |-> "RangeError"]

\* DataView reads; each is a RangeError unless InRange holds for its width.
InRange(buffer, offset, width) == offset + width <= Len(buffer)

getUint8(buffer, offset) == buffer[offset + 1]

getUint16(buffer, offset) == getUint8(buffer, offset) * 256 + getUint8(buffer, offset + 1)

\* A 32-bit big-endian word, kept as its four bytes.
getUint32(buffer, offset) == SubSeq(buffer, offset + 1, offset + 4)

HasBytes(buffer, offset, bytes) ==
  \A i \in 1..Len(bytes) : getUint8(buffer, offset + i - 1) = bytes[i]

Ftyp == <<102, 116, 121, 112>>

AvifBrands == {<<97, 118, 105, 102>>, <<97, 118, 105, 115>>}

HeicBrands == {<<104, 101, 105, 99>>, <<104, 101, 105, 102>>}

\* The 'ftyp' blocks: brand2 is read at offset 12 whatever the length, so the
\* read throws on a buffer of 12 to 15 bytes.
FtypBlock(buffer, brands) ==
  IF Len(buffer) >= 12 /\ getUint32(buffer, 4) = Ftyp
  THEN IF ~InRange(buffer, 12, 4) THEN "throw"
       ELSE IF getUint32(buffer, 8) \in brands \/ getUint32(buffer, 12) \in brands
       THEN "return"
       ELSE "next"
  ELSE "next"

\* A plausible slip: the check of the end marker made a condition.
IsJpegWithTail(buffer) ==
  /\ Len(buffer) >= 4 /\ HasBytes(buffer, 0, <<255, 216>>)
  /\ HasBytes(buffer, Len(buffer) - 2, <<255, 217>>)

\* With or without the end marker FF D9 the answer is 'jpg'.
IsJpeg(buffer) == Len(buffer) >= 2 /\ HasBytes(buffer, 0, <<255, 216>>)

IsPng(buffer) == Len(buffer) >= 8 /\ HasBytes(buffer, 0, <<137, 80, 78, 71, 13, 10, 26, 10>>)

IsGif(buffer) ==
  Len(buffer) >= 6 /\ (HasBytes(buffer, 0, <<71, 73, 70>>) \/ HasBytes(buffer, 0, <<71, 73, 102>>))

IsBmp(buffer) == Len(buffer) >= 2 /\ HasBytes(buffer, 0, <<66, 77>>)

IsWebp(buffer) ==
  Len(buffer) >= 12 /\ HasBytes(buffer, 0, <<82, 73, 70, 70>>) /\ HasBytes(buffer, 8, <<87, 69, 66, 80>>)

IsIco(buffer) == Len(buffer) >= 6 /\ getUint16(buffer, 0) = 0 /\ getUint16(buffer, 2) = 1

IsTiff(buffer) ==
  /\ Len(buffer) >= 4
  /\ \/ getUint16(buffer, 0) = 19789 /\ getUint16(buffer, 2) = 42
     \/ getUint16(buffer, 0) = 18761 /\ getUint16(buffer, 2) = 42

\* The body of the try block, check by check.
TryBlock(buffer) ==
  IF Len(buffer) = 0 THEN Returns("unknown")
  ELSE IF IsJpeg(buffer) THEN Returns("jpg")
  ELSE IF IsPng(buffer) THEN Returns("png")
  ELSE IF IsGif(buffer) THEN Returns("gif")
  ELSE IF IsBmp(buffer) THEN Returns("bmp")
  ELSE IF IsWebp(buffer) THEN Returns("webp")
  ELSE IF FtypBlock(buffer, AvifBrands) = "throw" THEN Throws
  ELSE IF FtypBlock(buffer, AvifBrands) = "return" THEN Returns("avif")
  ELSE IF IsIco(buffer) THEN Returns("ico")
  ELSE IF IsTiff(buffer) THEN Returns("tiff")
  ELSE IF FtypBlock(buffer, HeicBrands) = "throw" THEN Throws
  ELSE IF FtypBlock(buffer, HeicBrands) = "return" THEN Returns("heic")
  ELSE Returns("unknown")

\* A plausible slip: the body without its try/catch.
detectImageTypeByMagicNumberUncaught(buffer) == TryBlock(buffer)

\* catch (error) { return 'unknown' }
detectImageTypeByMagicNumber(buffer) ==
  IF TryBlock(buffer).threw THEN Returns("unknown") ELSE TryBlock(buffer)

MaxBufLen == 16

\* A header followed by zero bytes.
Padded(header) == header \o [i \in 1..(MaxBufLen - Len(header)) |-> 0]

Headers ==
  { <<255, 216, 255, 224>>,                                        \* JPEG
    <<255, 216, 0, 0>>,                                            \* JPEG, no tail
    <<255, 216, 255, 217>>,                                        \* JPEG, SOI EOI
    <<137, 80, 78, 71, 13, 10, 26, 10>>,                           \* PNG
    <<137, 80, 78, 71, 13, 10, 26, 11>>,                           \* PNG, last byte off
    <<71, 73, 70, 56, 57, 97>>,                                    \* GIF89a
    <<71, 73, 102, 56, 57, 97>>,                                   \* GIf89a
    <<66, 77>>,                                                    \* BM
    <<82, 73, 70, 70, 36, 0, 0, 0, 87, 69, 66, 80>>,               \* RIFF....WEBP
    <<0, 0, 0, 32, 102, 116, 121, 112, 97, 118, 105, 102>>,        \* ftyp avif
    <<0, 0, 0, 32, 102, 116, 121, 112, 109, 105, 102, 49, 97, 118, 105, 115>>,
    <<0, 0, 0, 24, 102, 116, 121, 112, 104, 101, 105, 99>>,        \* ftyp heic
    <<0, 0, 0, 24, 102, 116, 121, 112, 109, 105, 102, 49, 104, 101, 105, 102>>,
    <<0, 0, 0, 24, 102, 116, 121, 112, 105, 115, 111, 109>>,       \* ftyp isom
    <<0, 0, 1, 0, 1, 0>>,                                          \* ICO
    <<77, 77, 0, 42>>,                                             \* TIFF, MM
    <<73, 73, 42, 0>>,                                             \* TIFF, II
    <<60, 115, 118, 103, 62>>,                                     \* <svg>
    <<255>>, <<>> }

Buffers == {SubSeq(Padded(h), 1, n) : h \in Headers, n \in 0..MaxBufLen}

InitSniff == NoSweep /\ phase = "sniff" /\ input \in Buffers /\ output = <<>>

Sniff ==
  /\ phase = "sniff" /\ output = <<>>
  /\ output' = <<detectImageTypeByMagicNumber(input)>>
  /\ UNCHANGED <<sweepVars, input>>

SpecSniff == InitSniff /\ [][Sniff]_vars

Sniffed == phase = "sniff" /\ output # <<>>

\* The length of each format's signature in the table of signatures.
SignatureLength(format) ==
  CASE format \in {"jpg", "bmp"} -> 2
    [] format = "gif" -> 3
    [] format \in {"ico", "tiff"} -> 4
    [] format = "png" -> 8
    [] format \in {"webp", "avif", "heic"} -> 12

\* C10: the sniffer does not throw, whatever the buffer; a buffer of fewer
\* than 2 bytes gives 'unknown'; and the format it returns has a signature no
\* longer than the buffer.
C10_SnifferTotal ==
  Sniffed =>
    /\ ~output[1].threw
    /\ Len(input) < 2 => output[1].value = "unknown"
    /\ output[1].value # "unknown" => SignatureLength(output[1].value) <= Len(input)

\* A truncated 'ftyp' file, on which the read of the second brand is out of
\* range, has been sniffed.
C10_Witness ==
  /\ Sniffed /\ Len(input) >= 12 /\ Len(input) < 16
  /\ getUint32(input, 4) = Ftyp
  /\ output[1] = Returns("unknown")

\* The table of signatures, each matching as soon as the buffer is as long as
\* the signature itself (the 16-bit words are read as getUint16 reads them).
FtypSignature(buffer, brands) ==
  /\ Len(buffer) >= 12 /\ getUint32(buffer, 4) = Ftyp
  /\ \/ getUint32(buffer, 8) \in brands
     \/ Len(buffer) >= 16 /\ getUint32(buffer, 12) \in brands

SignatureMatches(format, buffer) ==
  CASE format = "jpg" -> Len(buffer) >= 2 /\ HasBytes(buffer, 0, <<255, 216>>)
    [] format = "png" ->
         Len(buffer) >= 8 /\ HasBytes(buffer, 0, <<137, 80, 78, 71, 13, 10, 26, 10>>)
    [] format = "gif" ->
         Len(buffer) >= 3
           /\ (HasBytes(buffer, 0, <<71, 73, 70>>) \/ HasBytes(buffer, 0, <<71, 73, 102>>))
    [] format = "bmp" -> Len(buffer) >= 2 /\ HasBytes(buffer, 0, <<66, 77>>)
    [] format = "webp" ->
         Len(buffer) >= 12 /\ HasBytes(buffer, 0, <<82, 73, 70, 70>>)
           /\ HasBytes(buffer, 8, <<87, 69, 66, 80>>)
    [] format = "avif" -> FtypSignature(buffer, AvifBrands)
    [] format = "ico" ->
         Len(buffer) >= 4 /\ getUint16(buffer, 0) = 0 /\ getUint16(buffer, 2) = 1
    [] format = "tiff" ->
         Len(buffer) >= 4 /\ getUint16(buffer, 0) \in {19789, 18761}
           /\ getUint16(buffer, 2) = 42
    [] format = "heic" -> FtypSignature(buffer, HeicBrands)

DetectionOrder == <<"jpg", "png", "gif", "bmp", "webp", "avif", "ico", "tiff", "heic">>

FirstSignature(buffer) ==
  IF \E k \in 1..Len(DetectionOrder) : SignatureMatches(DetectionOrder[k], buffer)
  THEN DetectionOrder[CHOOSE k \in 1..Len(DetectionOrder) :
         /\ SignatureMatches(DetectionOrder[k], buffer)
         /\ \A j \in 1..(k - 1) : ~SignatureMatches(DetectionOrder[j], buffer)]
  ELSE "unknown"

\* C11: the sniffer returns the first format, in the detection order, whose
\* signature the buffer matches, a signature matching as soon as the buffer is
\* as long as the signature; and 'unknown' only when none matches.
C11_FirstSignatureWins ==
  Sniffed => output[1] = Returns(FirstSignature(input))

StartsWith(buffer, bytes) == SubSeq(buffer, 1, Len(bytes)) = bytes

PngSignature == <<137, 80, 78, 71, 13, 10, 26, 10>>

\* C12: every buffer that starts FF D8 is 'jpg', [FF D8 00 00] among them;
\* every buffer that starts with the 8 bytes of the PNG signature is 'png',
\* and so never 'jpg'.
C12_JpegAndPng ==
  Sniffed =>
    /\ Len(input) >= 2 /\ StartsWith(input, <<255, 216>>) => output[1] = Returns("jpg")
    /\ Len(input) >= 8 /\ StartsWith(input, PngSignature) =>
         output[1] = Returns("png") /\ output[1].value # "jpg"

\* The buffer FF D8 00 00 has been sniffed as 'jpg'.
C12_Witness ==
  Sniffed /\ input = <<255, 216, 0, 0>> /\ output[1] = Returns("jpg")

\* The two TIFF headers: 'MM' 00 2A and 'II' 2A 00.
TiffBigEndian == <<77, 77, 0, 42>>

TiffLittleEndian == <<73, 73, 42, 0>>

\* C30: every buffer of at least 4 bytes that starts with the big-endian TIFF
\* header 4D 4D 00 2A or with the little-endian header 49 49 2A 00 is
\* classified 'tiff'.
C30_BothTiffOrders ==
  (/\ Sniffed
   /\ Len(input) >= 4
   /\ StartsWith(input, TiffBigEndian) \/ StartsWith(input, TiffLittleEndian))
    => output[1] = Returns("tiff")

(***************************************************************************)
(* Messaging: one request and its answer.  input is the request, phase its *)
(* position, output the responses handed to sendResponse so far (the       *)
(* content script's first when the background script relays).  stored is   *)
(* the persisted slot and doc the page the content script runs in.         *)
(***************************************************************************)
Request(to, action, tabId, url) == [to |-> to, action |-> action, tabId |-> tabId, url |-> url]

\* A response: {images}, {success: true, dataUrl} or {success: false, error}.
ImagesResponse(from, recs) ==
  [from |-> from, kind |-> "images", images |-> recs, dataUrl |-> "", error |-> ""]

SuccessResponse(from, dataUrl) ==
  [from |-> from, kind |-> "success", images |-> <<>>, dataUrl |-> dataUrl, error |-> ""]

FailureResponse(from, error) ==
  [from |-> from, kind |-> "failure", images |-> <<>>, dataUrl |-> "", error |-> error]

\* response.images as the receiver sees it: undefined is dropped from the
\* message, and the receiver's test `response && response.images` fails.
NoImages == <<[src |-> "undefined"]>>

ImagesOf(sw) == IF sw.result.kind = "list" THEN Serialized(sw).recs ELSE NoImages

\* The content script has called sendResponse: the channel of a direct
\* request closes, a relayed one returns to the background script's callback.
ContentResponds(r) ==
  /\ output' = Append(output, r)
  /\ phase' = IF input.to = "content" THEN "closed" ELSE "replied"

AtContent(action) ==
  \/ phase = "sent" /\ input.to = "content" /\ input.action = action
  \/ phase = "relayed" /\ (IF input.action = "getImages" THEN "extractImages" ELSE input.action) = action

\* The listener's extractImages branch.
RespondWithSweep(sw) ==
  /\ images' = sw.images /\ result' = sw.result /\ seenUrls' = sw.seen /\ tasks' = sw.tasks
  /\ ContentResponds(ImagesResponse("content", ImagesOf(sw)))
  /\ UNCHANGED <<doc, stored, input>>

\* The pages the content script runs in, and what extractImages does on each.
MessageDocuments ==
  {<<>>, <<Img("http://h/a", "P")>>, <<Img("http://h/c.svg", "S")>>,
   <<Img("data:image/svg+xml,%", "D")>>, <<Element("video", "//[")>>}

SweepOf == [d \in MessageDocuments |-> extractImages(d)]

ContentExtractImages == AtContent("extractImages") /\ RespondWithSweep(SweepOf[doc])

IsSvgSource(src) == includes(src, ".svg") \/ includes(src, "svg+xml")

\* const encodedSvg = svgUrl.split(',')[1]; if (encodedSvg) decodeURIComponent(...)
InlineSvgReadable(svgUrl) ==
  /\ includes(svgUrl, "data:image/svg+xml")
  /\ PartOr(split(svgUrl, ","), 2) # ""
  /\ decodeURIComponent(PartOr(split(svgUrl, ","), 2)).ok

\* images.find(img => img.src === request.url) on the parsed slot; 0 when the
\* slot is null or does not parse, or holds no such record.
CachedIndex(slot, url) == IF slot.kind = "list" THEN FindBySrc(slot.recs, url) ELSE 0

DomImages(d, url) == {i \in 1..Len(d) : d[i].kind = "img" /\ d[i].src = url}

\* The branch returns true with a fetch pending and nothing sent yet.
AwaitFetch == [from |-> "content", kind |-> "pending", images |-> <<>>, dataUrl |-> "", error |-> ""]

\* What the getCachedImage branch does before it returns: the response it
\* sends, or AwaitFetch when it leaves the answer to a fetch.  tainted says
\* whether drawing the image to a canvas throws.
CachedImageStep(slot, d, url, tainted) ==
  IF CachedIndex(slot, url) # 0 /\ url # ""
  THEN IF ~IsSvgSource(url) \/ InlineSvgReadable(url)
       THEN SuccessResponse("content", url)
       ELSE AwaitFetch
  ELSE IF DomImages(d, url) = {}
  THEN FailureResponse("content", "not found")
  ELSE IF IsSvgSource(url) THEN AwaitFetch
  ELSE IF tainted THEN SuccessResponse("content", url)
  ELSE SuccessResponse("content", "data:image/png;base64,AA")

AfterCachedImageStep(step) ==
  /\ IF step = AwaitFetch THEN phase' = "fetching" /\ UNCHANGED output ELSE ContentResponds(step)
  /\ UNCHANGED <<doc, images, result, seenUrls, tasks, stored, input>>

ContentGetCachedImage ==
  /\ AtContent("getCachedImage")
  /\ \E tainted \in BOOLEAN :
       AfterCachedImageStep(CachedImageStep(stored, doc, input.url, tainted))

\* Any other action: the listener returns true and never answers.
ContentOtherAction ==
  /\ phase = "sent" /\ input.to = "content"
  /\ input.action \notin {"extractImages", "getCachedImage"}
  /\ phase' = "open"
  /\ UNCHANGED <<doc, images, result, seenUrls, tasks, stored, input, output>>

\* A plausible slip: the fetch chain without its .catch.
FetchCatchMissing ==
  /\ phase' = "open"
  /\ UNCHANGED output

\* .catch(error => ...): the cached or the element's source is sent back; it
\* is the requested url in both places.
FetchCatch == ContentResponds(SuccessResponse("content", input.url))

\* fetch(svgUrl) settles: ok, not ok (the handler throws), or rejected.
FetchSettles ==
  /\ phase = "fetching"
  /\ \E outcome \in {"ok", "notOk", "rejected"} :
       IF outcome = "ok" THEN phase' = "reading" /\ UNCHANGED output ELSE FetchCatch
  /\ UNCHANGED <<doc, images, result, seenUrls, tasks, stored, input>>

\* response.text() settles; encodeURIComponent throws on malformed text.
TextSettles ==
  /\ phase = "reading"
  /\ \E outcome \in {"text", "malformed", "rejected"} :
       IF outcome = "text"
       THEN ContentResponds(SuccessResponse("content", "data:image/svg+xml;utf8,%3Csvg%2F%3E"))
       ELSE FetchCatch
  /\ UNCHANGED <<doc, images, result, seenUrls, tasks, stored, input>>

BackgroundResponds(r) == output' = Append(output, r) /\ phase' = "closed"

\* The background listener and the handler it dispatches to, up to its return.
BackgroundListener ==
  /\ phase = "sent" /\ input.to = "background"
  /\ IF input.action = "getImages"
     THEN IF input.tabId # 0 THEN phase' = "injecting" /\ UNCHANGED output
          ELSE BackgroundResponds(ImagesResponse("background", <<>>))
     ELSE IF input.action = "getCachedImage"
     THEN IF input.tabId # 0 /\ input.url # "" THEN phase' = "injecting" /\ UNCHANGED output
          ELSE BackgroundResponds(FailureResponse("background", "missing parameters"))
     ELSE BackgroundResponds(FailureResponse("background", "unknown action"))
  /\ UNCHANGED <<doc, images, result, seenUrls, tasks, stored, input>>

\* sendResponse of the handler's fallback: {images: []} or a failure.
BackgroundFallback(error) ==
  BackgroundResponds(IF input.action = "getImages"
                     THEN ImagesResponse("background", <<>>)
                     ELSE FailureResponse("background", error))

\* chrome.scripting.executeScript settles.
InjectionSettles ==
  /\ phase = "injecting"
  /\ \E injected \in BOOLEAN :
       IF injected THEN phase' = "relayed" /\ UNCHANGED output
       ELSE BackgroundFallback("injection failed")
  /\ UNCHANGED <<doc, images, result, seenUrls, tasks, stored, input>>

\* The callback of chrome.tabs.sendMessage runs with the content script's
\* response.
BackgroundCallback ==
  /\ phase = "replied"
  /\ IF input.action = "getImages" /\ output[Len(output)].images = NoImages
     THEN BackgroundFallback("")
     ELSE BackgroundResponds([output[Len(output)] EXCEPT !.from = "background"])
  /\ UNCHANGED <<doc, images, result, seenUrls, tasks, stored, input>>

\* The callback runs with no response: nothing in the tab received the
\* message.
NoReceiver ==
  /\ phase = "relayed"
  /\ BackgroundFallback("no response")
  /\ UNCHANGED <<doc, images, result, seenUrls, tasks, stored, input>>

MessageUrls ==
  {"", "http://h/a", "http://h/c.svg", "data:image/svg+xml,a%20b", "data:image/svg+xml,%",
   "data:image/svg+xml;base64"}

Requests ==
  {Request("content", "extractImages", 0, ""), Request("content", "other", 0, "")}
  \cup {Request("content", "getCachedImage", 0, u) : u \in MessageUrls}
  \cup {Request("background", a, t, "") : a \in {"getImages", "other"}, t \in {0, 1}}
  \cup {Request("background", "getCachedImage", t, u) : t \in {0, 1}, u \in MessageUrls}

MessageSlots ==
  {NoSlot, InvalidSlot}
  \cup {ListSlot(<<ImageRecord(u, "", NoSize, getImageType(u), "img")>>) : u \in MessageUrls \ {""}}

InitMsg ==
  /\ doc \in MessageDocuments /\ stored \in MessageSlots /\ input \in Requests
  /\ phase = "sent" /\ output = <<>>
  /\ images = <<>> /\ result = NoResult /\ seenUrls = {} /\ tasks = <<>>

NextMsg ==
  \/ ContentExtractImages
  \/ ContentGetCachedImage
  \/ ContentOtherAction
  \/ FetchSettles
  \/ TextSettles
  \/ BackgroundListener
  \/ InjectionSettles
  \/ BackgroundCallback
  \/ NoReceiver

\* Every pending promise settles and every delivered message is handled.
SpecMsg == InitMsg /\ [][NextMsg]_vars /\ WF_vars(NextMsg)

AnsweredActions == {"extractImages", "getImages", "getCachedImage"}

\* sendResponse of the script the request was sent to has been called.
Answered == \E k \in 1..Len(output) : output[k].from = input.to

\* C9: every extractImages, getImages and getCachedImage request is eventually
\* answered by the script it was sent to, with images, a success or a
\* failure.
C9_EveryRequestAnswered ==
  (phase = "sent" /\ input.action \in AnsweredActions) ~> Answered

\* A getCachedImage request through the background script has been answered
\* with the SVG's own source after the content script's re-fetch failed.
C9_Witness ==
  /\ phase = "closed" /\ input.to = "background" /\ input.action = "getCachedImage"
  /\ Len(output) = 2 /\ output[2] = SuccessResponse("background", input.url)
  /\ IsSvgSource(input.url) /\ ~InlineSvgReadable(input.url)

(***************************************************************************)
(* getImageType on its own: a URL is classified, and classified again      *)
(***************************************************************************)
MaxUrlParts == 4

TypeChunks == {"http://h/", "cdn.", "a", ".", "JPEG", "png", "?", "#", "data:image/", ";"}

TypeInputs ==
  {Concat(q) : q \in SeqsUpTo(TypeChunks, MaxUrlParts)}
  \cup { "data:image/jpeg;base64,AA", "data:image/JPEG;base64,AA", "data:image/png,AA",
         "https://site.com/img.JPEG?x=1", "https://cdn.site.com/photo_png",
         "https://site.com/photo_png", "/img/a.tif#x?y.gif", "a?type=heif" }

InitType == NoSweep /\ phase = "classify" /\ input \in TypeInputs /\ output = <<>>

\* One call of getImageType(input); the function reads its argument only.
Classify ==
  /\ phase = "classify" /\ Len(output) < 2
  /\ output' = Append(output, getImageType(input))
  /\ UNCHANGED <<sweepVars, input>>

SpecType == InitType /\ [][Classify]_vars

Classified == phase = "classify" /\ Len(output) >= 1

IsDataUri(url) == startsWith(url, "data:")

\* 'jpeg' collapsed to 'jpg'.
Collapsed(subtype) == IF subtype = "jpeg" THEN "jpg" ELSE subtype

\* The text of s before the first character that is one of stops.
Before(s, stops) ==
  LET hits == {i \in 1..Len(s) : \E c \in stops : SubSeq(s, i, i) = c}
  IN IF hits = {} THEN s ELSE SubSeq(s, 1, (CHOOSE i \in hits : \A j \in hits : i <= j) - 1)

\* The subtype a data URI declares: what follows 'data:image/', up to the
\* parameters or the data.
DeclaredSubtype(url) == Before(SubSeq(url, Len("data:image/") + 1, Len(url)), {";", ","})

\* C13: a data URI that declares image/<subtype> is given the declared subtype
\* in lower case, 'jpeg' collapsed to 'jpg', with or without a ';' parameter
\* after the declaration.
C13_DataUriSubtype ==
  (Classified /\ startsWith(input, "data:image/") /\ DeclaredSubtype(input) # "")
    => output[1] = Collapsed(toLowerCase(DeclaredSubtype(input)))

\* The spellings of the supported extensions that the inputs use.
ExtensionSpellings == {"JPEG", "jpeg", "png", "tif", "gif"}

EndsWith(s, suffix) ==
  Len(s) >= Len(suffix) /\ SubSeq(s, Len(s) - Len(suffix) + 1, Len(s)) = suffix

\* C14: a URL that is not a data URI and whose path, the query and the
\* fragment stripped, ends in '.<ext>' with <ext> a supported format in any
\* case, is given that format in lower case, 'jpeg' collapsed to 'jpg',
\* whatever the query and the fragment hold; 'https://site.com/img.JPEG?x=1'
\* is 'jpg'.
C14_ExtensionWins ==
  Classified =>
    /\ \A ext \in ExtensionSpellings :
         (~IsDataUri(input) /\ EndsWith(Before(input, {"?", "#"}), "." \o ext))
           => output[1] = Collapsed(toLowerCase(ext))
    /\ input = "https://site.com/img.JPEG?x=1" => output[1] = "jpg"

\* A URL with an upper-case extension and a query that names another format
\* has been classified by its extension.
C14_Witness ==
  /\ Classified /\ EndsWith(Before(input, {"?", "#"}), ".JPEG")
  /\ includes(input, "?") /\ includes(DropFirst(input, indexOf(input, "?")), "png")
  /\ output[1] = "jpg"

\* The tags getImageType gives a URL that is not a data:image/ URI.
FormatTags ==
  {"jpg", "png", "svg", "webp", "gif", "bmp", "ico", "tiff", "tif", "apng", "avif", "heic"}

FinalSegment(url) ==
  LET path == Before(url, {"?", "#"})
  IN DropFirst(path, lastIndexOf(path, "/"))

CarriesSupportedExtension(segment) ==
  \E ext \in SupportedExtensions \cup {"jpeg"} : EndsWith(toLowerCase(segment), "." \o ext)

\* C20: when the final path segment of a URL that is not a data URI carries
\* no supported extension, the whole lower-cased URL is scanned for the format
\* keywords and the first hit is returned; 'https://cdn.site.com/photo_png' is
\* 'png'.
C20_KeywordScan ==
  (Classified /\ ~IsDataUri(input) /\ ~CarriesSupportedExtension(FinalSegment(input))
     /\ KeywordType(toLowerCase(input)) # "")
    => output[1] = KeywordType(toLowerCase(input))

(***************************************************************************)
(* getImageTypeByFetch step by step, for the coordinated task of a page    *)
(* with one image: output is [log, answer, got, net, value], the outcomes  *)
(* of the fetch attempts so far, the network's answer to the second one,   *)
(* what was obtained (nothing, a content type or bytes), what the try      *)
(* block came to, and the resolved value                                   *)
(***************************************************************************)
FetchUrls ==
  { "http://h/d", "http://h/b.png", "http://h/b.png?utm_source=x",
    "http://h/r?t=image/gif", "http://h/image/svg/image/png" }

ContentTypes == {"", "image/png", "image/JPEG", "image/svg+xml", "image/heic", "text/html"}

\* What response.arrayBuffer() settles to: a buffer, or <<-1>> for a rejection.
BodyRejected == <<-1>>

Bodies ==
  { <<>>, <<255, 216, 255, 224>>, <<137, 80, 78, 71, 13, 10, 26, 10>>, <<71, 73, 70>>,
    <<60, 104, 116, 109, 108, 62>>, BodyRejected }

FetchPage(url) == extractImages(<<Img(url, "")>>)

NoFetch == [log |-> <<>>, answer |-> "", got |-> "", net |-> "", value |-> ""]

InitFetch ==
  /\ input \in FetchUrls
  /\ doc = <<Img(input, "")>>
  /\ images = FetchPage(input).images
  /\ result = FetchPage(input).result
  /\ seenUrls = FetchPage(input).seen
  /\ tasks = FetchPage(input).tasks
  /\ stored \in {NoSlot, Serialized(FetchPage(input))}
  /\ phase = "cors"
  /\ output = NoFetch

FetchStep(nextPhase, nextOutput) ==
  /\ phase' = nextPhase
  /\ output' = nextOutput
  /\ UNCHANGED <<doc, images, result, seenUrls, tasks, stored, input>>

\* await fetch(url, {mode: 'cors', ...}): an ok or opaque response ends the
\* loop, anything else goes on to the second configuration.
CorsFetchSettles ==
  /\ phase = "cors"
  /\ \E r \in AttemptOutcomes :
       FetchStep(IF r \in {"ok", "opaque"} THEN "response" ELSE "no-cors",
                 [output EXCEPT !.log = <<r>>])

\* Both configurations carry the signal of the one controller, whose timer
\* is set once and never cleared: a fetch started after the abort rejects at
\* once, whatever the network would have answered it.
SecondAttempt(first, answer) == IF first = "aborted" THEN "aborted" ELSE answer

\* await fetch(url, {mode: 'no-cors', ...}); output.answer keeps what the
\* network answers this request with.
NoCorsFetchSettles ==
  /\ phase = "no-cors"
  /\ \E answer \in AttemptOutcomes :
       FetchStep("response",
         [output EXCEPT !.log = Append(@, SecondAttempt(output.log[1], answer)),
                        !.answer = answer])

\* After the loop: no response throws; an opaque response is judged by its
\* Content-Type header; any other response has its body read.
ResponseHandled ==
  /\ phase = "response"
  /\ IF ResponseAfter(output.log) = "none"
     THEN FetchStep("settled", [output EXCEPT !.got = "nothing", !.net = "rejected"])
     ELSE IF ResponseAfter(output.log) = "opaque"
     THEN \E contentType \in ContentTypes :
            FetchStep("settled",
              [output EXCEPT !.got = IF contentType = "" THEN "nothing" ELSE "contentType",
                             !.net = OpaqueType(contentType)])
     ELSE FetchStep("reading", output)

\* await response.arrayBuffer(), then the sniffer.
BodySettles ==
  /\ phase = "reading"
  /\ \E body \in Bodies :
       FetchStep("settled",
         [output EXCEPT !.got = IF body = BodyRejected THEN "nothing" ELSE "bytes",
                        !.net = IF body = BodyRejected THEN "rejected"
                                ELSE detectImageTypeByMagicNumber(body).value])

\* The promise of getImageTypeByFetch resolves, getImageInfoCoordinated
\* merges, and the then-callback runs.
FetchCoordinated ==
  /\ phase = "settled" /\ Len(tasks) >= 1 /\ ~tasks[1].done
  /\ output' = [output EXCEPT !.value = getImageTypeByFetch(input, output.net)]
  /\ LET settled == Settled(tasks[1], [net |-> output.net, dims |-> NoSize])
     IN /\ images' = CoordCallback(Env, settled).images
        /\ seenUrls' = CoordCallback(Env, settled).seen
        /\ stored' = CoordCallback(Env, settled).stored
        /\ tasks' = [tasks EXCEPT ![1] = settled]
  /\ phase' = "coordinated"
  /\ UNCHANGED <<doc, result, input>>

NextFetch ==
  \/ CorsFetchSettles
  \/ NoCorsFetchSettles
  \/ ResponseHandled
  \/ BodySettles
  \/ FetchCoordinated

SpecFetch == InitFetch /\ [][NextFetch]_vars

\* C16: getImageTypeByFetch never rejects: whatever the two fetch attempts
\* and the body read come to, it resolves to a format tag or 'unknown'; with
\* no bytes, no content type and no 'image/<subtype>' in the URL it resolves
\* to 'unknown', and the record keeps the type the URL heuristic gave it.
C16_FetchNeverRejects ==
  phase = "coordinated" =>
    /\ output.value \in FormatTags \cup {"unknown"}
    /\ (output.got = "nothing" /\ ~includes(toLowerCase(input), "image/"))
         => /\ output.value = "unknown"
            /\ images[1].type = getImageType(input)

\* The first attempt answered 404, the second was rejected, the body of the
\* 404 could not be read, and the record of b.png is still 'png'.
C16_Witness ==
  /\ phase = "coordinated" /\ input = "http://h/b.png"
  /\ output.log = <<"notOk", "rejected">> /\ output.got = "nothing"
  /\ output.value = "unknown" /\ images[1].type = "png"

\* C21: a first attempt that timed out is followed by a second attempt just
\* as a first attempt that was rejected is: the second attempt comes to what
\* the network answers it, so the result is the same for the same answer.
C21_TimeoutLikeRejection ==
  (/\ phase \in {"response", "reading", "settled", "coordinated"}
   /\ Len(output.log) = 2
   /\ output.log[1] \in {"aborted", "rejected"})
    => output.log[2] = output.answer

(***************************************************************************)
(* Batch download: the background script's downloadAllImagesAsZip behind   *)
(* its message handler, and the sidebar's downloadAllImages loop.  input   *)
(* is [side, images, filter]; output is the loop's state: i the index of   *)
(* the record in turn (from 0), the two counters, log the downloads        *)
(* attempted, pauses the delays waited, list the records the loop runs     *)
(* over, report what is sent back or shown.                                *)
(***************************************************************************)
MaxBatch == 3

BatchRecords ==
  { [src |-> "http://h/a.jpg", type |-> "jpg"], [src |-> "http://h/b.png", type |-> "png"],
    [src |-> "http://h/c.jpeg", type |-> "jpeg"] }

TypeFilters == {"all", "jpg", "png", "gif"}

NoReport == [success |-> FALSE, successCount |-> -1, errorCount |-> -1, error |-> ""]

BatchStart ==
  [i |-> 0, successCount |-> 0, errorCount |-> 0, log |-> <<>>, pauses |-> 0, list |-> <<>>,
   report |-> NoReport]

InitBatch ==
  /\ NoSweep
  /\ input \in [side : {"background", "sidebar"},
                images : SeqsUpTo(BatchRecords, MaxBatch),
                filter : TypeFilters]
  /\ phase = "clicked"
  /\ output = BatchStart

BatchStep(nextPhase, nextOutput) ==
  /\ phase' = nextPhase
  /\ output' = nextOutput
  /\ UNCHANGED <<doc, images, result, seenUrls, tasks, stored, input>>

\* actionHandlers.downloadAllImages: an empty list is answered at once, any
\* other starts the loop over request.images.
BackgroundBatchHandler ==
  /\ phase = "clicked" /\ input.side = "background"
  /\ IF Len(input.images) > 0
     THEN BatchStep("downloading", [output EXCEPT !.list = input.images])
     ELSE BatchStep("done", [output EXCEPT !.report = [NoReport EXCEPT !.error = "no images"]])

\* A download that was attempted, and whether it succeeded.
Attempt(image, ok) == [src |-> image.src, ok |-> ok]

\* A plausible slip: no try/catch around the download of one record, so that
\* its failure leaves the loop.
AfterDownloadAborting(st, downloaded) ==
  IF downloaded
  THEN [st EXCEPT !.i = @ + 1, !.successCount = @ + 1,
                  !.log = Append(@, Attempt(st.list[st.i + 1], TRUE))]
  ELSE [st EXCEPT !.i = Len(st.list), !.errorCount = @ + 1,
                  !.log = Append(@, Attempt(st.list[st.i + 1], FALSE))]

\* One turn of the for loop of downloadAllImagesAsZip up to its delay:
\* await downloadImage(image.src, filename) resolved or rejected.
AfterDownload(st, downloaded) ==
  IF downloaded
  THEN [st EXCEPT !.i = @ + 1, !.successCount = @ + 1,
                  !.log = Append(@, Attempt(st.list[st.i + 1], TRUE))]
  ELSE [st EXCEPT !.i = @ + 1, !.errorCount = @ + 1,
                  !.log = Append(@, Attempt(st.list[st.i + 1], FALSE))]

\* if (i < images.length - 1) await new Promise(resolve => setTimeout(resolve, 100))
BackgroundDownloadSettles ==
  /\ phase = "downloading" /\ input.side = "background" /\ output.i < Len(output.list)
  /\ \E downloaded \in BOOLEAN :
       BatchStep(IF output.i < Len(output.list) - 1 THEN "pausing" ELSE "downloading",
                 AfterDownload(output, downloaded))

DelayElapses ==
  /\ phase = "pausing"
  /\ BatchStep("downloading", [output EXCEPT !.pauses = @ + 1])

\* return { success: true, successCount, errorCount }, sent back by the handler
BackgroundBatchReturns ==
  /\ phase = "downloading" /\ input.side = "background" /\ output.i >= Len(output.list)
  /\ BatchStep("done",
       [output EXCEPT !.report = [success |-> TRUE, successCount |-> output.successCount,
                                  errorCount |-> output.errorCount, error |-> ""]])

\* window.imagesData.filter(...) of the sidebar
MatchesFilter(image, filterType) ==
  IF filterType = "all" THEN TRUE
  ELSE IF filterType = "jpg" THEN image.type \in {"jpg", "jpeg"}
  ELSE image.type = filterType

filteredImages(q, filterType) == SelectSeq(q, LAMBDA image : MatchesFilter(image, filterType))

\* The sidebar's downloadAllImages up to its loop: nothing to download, or
\* the user declines, or the loop starts over the filtered records.
SidebarBatchStarts ==
  /\ phase = "clicked" /\ input.side = "sidebar"
  /\ IF Len(input.images) = 0 \/ Len(filteredImages(input.images, input.filter)) = 0
     THEN BatchStep("done", [output EXCEPT !.report = [NoReport EXCEPT !.error = "no images"]])
     ELSE \E confirmed \in BOOLEAN :
            IF confirmed
            THEN BatchStep("downloading",
                   [output EXCEPT !.list = filteredImages(input.images, input.filter)])
            ELSE BatchStep("done", [output EXCEPT !.report = [NoReport EXCEPT !.error = "declined"]])

\* One turn of the sidebar's loop: the answer to the downloadImage message
\* says success, says failure, or sendMessage rejects.
SidebarDownloadSettles ==
  /\ phase = "downloading" /\ input.side = "sidebar" /\ output.i < Len(output.list)
  /\ \E answer \in {"success", "failure", "rejected"} :
       BatchStep("downloading",
         [output EXCEPT !.i = @ + 1,
                        !.successCount = IF answer = "success" THEN @ + 1 ELSE @,
                        !.log = Append(@, Attempt(output.list[output.i + 1],
                                                  answer = "success"))])

\* alert(成功 successCount 张，失败 filteredImages.length - successCount 张)
SidebarBatchReports ==
  /\ phase = "downloading" /\ input.side = "sidebar" /\ output.i >= Len(output.list)
  /\ BatchStep("done",
       [output EXCEPT !.report = [success |-> TRUE, successCount |-> output.successCount,
                                  errorCount |-> Len(output.list) - output.successCount,
                                  error |-> ""]])

NextBatch ==
  \/ BackgroundBatchHandler
  \/ BackgroundDownloadSettles
  \/ DelayElapses
  \/ BackgroundBatchReturns
  \/ SidebarBatchStarts
  \/ SidebarDownloadSettles
  \/ SidebarBatchReports

SpecBatch == InitBatch /\ [][NextBatch]_vars

Matching(q, filterType) == {k \in 1..Len(q) : MatchesFilter(q[k], filterType)}

\* C17: the batch download attempts every record once, in list order, with
\* a pause between consecutive records; a failed download does not stop the
\* later ones; and the counts reported sum to the number of records, for the
\* sidebar's loop the number of records that match the type filter.
C17_BatchAttemptsAll ==
  phase \in {"downloading", "pausing", "done"} =>
    /\ \A k \in 1..Len(output.log) : output.log[k].src = output.list[k].src
    /\ input.side = "background" =>
         /\ output.list \in {<<>>, input.images}
         /\ phase = "pausing" => output.pauses = Len(output.log) - 1
         /\ (phase = "downloading" /\ output.i < Len(output.list))
              => output.pauses = Len(output.log)
    /\ (phase = "done" /\ output.report.success) =>
         /\ Len(output.log) = Len(output.list)
         /\ output.report.successCount + output.report.errorCount =
              IF input.side = "background" THEN Len(input.images)
              ELSE Cardinality(Matching(input.images, input.filter))
         /\ output.report.successCount =
              Cardinality({k \in 1..Len(output.log) : output.log[k].ok})
         /\ input.side = "background" => output.pauses = Len(input.images) - 1

\* A batch of three whose first download failed and whose third succeeded.
C17_Witness ==
  /\ phase = "done" /\ input.side = "background" /\ Len(input.images) = 3
  /\ Len(output.log) = 3 /\ ~output.log[1].ok /\ output.log[3].ok
  /\ output.report.errorCount = 1

(***************************************************************************)
(* parseSvgDimensions.  The markup is given by what the two XML parsers    *)
(* make of it: markup says whether it is well formed and has an svg root,  *)
(* dom whether svgDoc.querySelector('svg') finds an element (for malformed *)
(* markup the browser decides: Chrome keeps the tree read before the error *)
(* and puts a parsererror element into it), fxp what the fast-xml-parser   *)
(* library does when it is loaded, and width, height, viewBox, style the   *)
(* root's attribute texts, "" for an attribute that is not there.  A       *)
(* JavaScript value is [t, s, n]: null, a string s, a number n or NaN;     *)
(* numbers are held in tenths.                                             *)
(***************************************************************************)
JsNull == [t |-> "null", s |-> "", n |-> 0]

JsStr(s) == [t |-> "str", s |-> s, n |-> 0]

JsNum(n) == [t |-> "num", s |-> "", n |-> n]

JsNaN == [t |-> "nan", s |-> "", n |-> 0]

\* if (v), !v
Truthy(v) == (v.t = "str" /\ v.s # "") \/ (v.t = "num" /\ v.n # 0)

NumberChars == "0123456789."

\* The length of the longest prefix of s made of the characters of chars.
RECURSIVE RunLength(_, _)
RunLength(s, chars) ==
  IF s # "" /\ includes(chars, CharAt(s, 1)) THEN 1 + RunLength(DropFirst(s, 1), chars) ELSE 0

\* s.match(/([\d.]+)/): the first run of digits and dots, "" for no match.
NumberRun(s) ==
  LET hits  == {i \in 1..Len(s) : includes(NumberChars, CharAt(s, i))}
      first == CHOOSE i \in hits : \A j \in hits : i <= j
  IN IF hits = {} THEN ""
     ELSE SubSeq(s, first, first + RunLength(DropFirst(s, first - 1), NumberChars) - 1)

RECURSIVE DigitsValue(_)
DigitsValue(s) ==
  IF s = "" THEN 0
  ELSE DigitsValue(SubSeq(s, 1, Len(s) - 1)) * 10 + (indexOf(Digits, CharAt(s, Len(s))) - 1)

\* parseFloat of a text, in tenths (the texts used have one decimal at most).
parseFloatText(text) ==
  LET s      == trim(text)
      signed == s # "" /\ CharAt(s, 1) \in {"-", "+"}
      body   == IF signed THEN DropFirst(s, 1) ELSE s
      whole  == RunLength(body, Digits)
      rest   == DropFirst(body, whole)
      frac   == IF rest # "" /\ CharAt(rest, 1) = "." THEN RunLength(DropFirst(rest, 1), Digits)
                ELSE 0
      tenths == IF frac > 0 THEN indexOf(Digits, CharAt(rest, 2)) - 1 ELSE 0
      size   == DigitsValue(SubSeq(body, 1, whole)) * 10 + tenths
  IN IF whole = 0 /\ frac = 0 THEN JsNaN
     ELSE JsNum(IF signed /\ CharAt(s, 1) = "-" THEN 0 - size ELSE size)

parseFloat(v) == IF v.t = "str" THEN parseFloatText(v.s) ELSE v

\* Method 1: the numeric part of the width or height attribute.
AttributeNumber(attr) ==
  IF attr # "" /\ NumberRun(attr) # "" THEN JsStr(NumberRun(attr)) ELSE JsNull

\* viewBox.split(/\s+/).filter(part => part)
Words(s) == SelectSeq(split(s, " "), LAMBDA part : part # "")

\* Method 2: the viewBox's third (k = 3) or fourth (k = 4) component.
FromViewBox(dim, viewBox, k) ==
  IF ~Truthy(dim) /\ viewBox # "" /\ Len(Words(viewBox)) >= 4
  THEN parseFloatText(Words(viewBox)[k])
  ELSE dim

\* style.match(/width:\s*([\d.]+)\s*(px|...)?/): the number after the first
\* 'width:' that a number follows, "" for no match.
StyleNumber(style, key) ==
  LET After(i) == DropFirst(style, i - 1 + Len(key))
      Value(i) == DropFirst(After(i), RunLength(After(i), " "))
      hits == {i \in 1..Len(style) :
                 startsWith(DropFirst(style, i - 1), key) /\ RunLength(Value(i), NumberChars) > 0}
      first == CHOOSE i \in hits : \A j \in hits : i <= j
  IN IF hits = {} THEN "" ELSE SubSeq(Value(first), 1, RunLength(Value(first), NumberChars))

\* Method 3: the style attribute.
FromStyle(dim, style, key) ==
  IF ~Truthy(dim) /\ style # "" /\ StyleNumber(style, key) # ""
  THEN JsStr(StyleNumber(style, key))
  ELSE dim

\* Method 4: svgElement.style.width, svgElement.style.height.
FromInlineCss(dim, css) ==
  IF ~Truthy(dim) /\ css # "" /\ NumberRun(css) # "" THEN JsStr(NumberRun(css)) ELSE dim

\* Math.ceil of a number in tenths.
Ceil(n) == ((n + 9) \div 10) * 10

\* Method 5: the bounding box of the first drawable child, padded by 10;
\* bbox is <<0, 0>> when there is no child, no getBBox, or getBBox throws.
FromBBox(dim, bbox, k) ==
  IF ~Truthy(dim) /\ bbox[1] > 0 /\ bbox[2] > 0 THEN JsNum(Ceil(bbox[k] + 100)) ELSE dim

NumberOf(dim) == IF Truthy(dim) THEN parseFloat(dim) ELSE JsNum(0)

IsPositive(v) == v.t = "num" /\ v.n > 0

Min(a, b) == IF a < b THEN a ELSE b

Max(a, b) == IF a > b THEN a ELSE b

\* Math.round(Math.min(Math.max(n, 1), 50000)), n in tenths
Clamped(n) == (Min(Max(n, 10), 500000) + 5) \div 10

\* The conversion and the validation both branches end with: the size to
\* return, NoSize when the branch returns nothing.
Validated(width, height) ==
  IF IsPositive(NumberOf(width)) /\ IsPositive(NumberOf(height))
  THEN <<Clamped(NumberOf(width).n), Clamped(NumberOf(height).n)>>
  ELSE NoSize

\* What fast-xml-parser makes of an attribute text with parseAttributeValue:
\* a numeric text becomes a number, an absent attribute is undefined.
IsNumericText(s) ==
  LET body == IF s # "" /\ CharAt(s, 1) = "-" THEN DropFirst(s, 1) ELSE s
  IN body # "" /\ RunLength(body, NumberChars) = Len(body) /\ parseFloatText(s).t = "num"

FxpValue(attr) ==
  IF attr = "" THEN JsNull ELSE IF IsNumericText(attr) THEN parseFloatText(attr) ELSE JsStr(attr)

\* A truthy number has no match and no split: the call throws a TypeError.
FxpThrowsOn(v) == Truthy(v) /\ v.t = "num"

FxpAttributeNumber(attr) ==
  IF Truthy(FxpValue(attr)) THEN AttributeNumber(attr) ELSE JsNull

\* The fast-xml-parser branch: the size it returns, NoSize when it returns
\* nothing (no library, no svg member, a size that is not positive) or when
\* what it throws is caught, the DOMParser branch following in both cases.
FxpBranch(svg) ==
  LET w1 == FxpAttributeNumber(svg.width)
      h1 == FxpAttributeNumber(svg.height)
      w2 == FromViewBox(w1, svg.viewBox, 3)
      h2 == FromViewBox(h1, svg.viewBox, 4)
      w3 == FromStyle(w2, svg.style, "width:")
      h3 == FromStyle(h2, svg.style, "height:")
  IN IF svg.fxp # "svg" THEN NoSize
     ELSE IF FxpThrowsOn(FxpValue(svg.width)) \/ FxpThrowsOn(FxpValue(svg.height)) THEN NoSize
     ELSE IF (~Truthy(w1) \/ ~Truthy(h1)) /\ FxpThrowsOn(FxpValue(svg.viewBox)) THEN NoSize
     ELSE IF (~Truthy(w2) \/ ~Truthy(h2)) /\ FxpThrowsOn(FxpValue(svg.style)) THEN NoSize
     ELSE Validated(w3, h3)

\* The DOMParser branch.
DomBranch(svg) ==
  LET w1 == AttributeNumber(svg.width)
      h1 == AttributeNumber(svg.height)
      w2 == FromViewBox(w1, svg.viewBox, 3)
      h2 == FromViewBox(h1, svg.viewBox, 4)
      w3 == FromStyle(w2, svg.style, "width:")
      h3 == FromStyle(h2, svg.style, "height:")
      w4 == FromInlineCss(w3, svg.cssWidth)
      h4 == FromInlineCss(h3, svg.cssHeight)
      w5 == FromBBox(w4, svg.bbox, 1)
      h5 == FromBBox(h4, svg.bbox, 2)
  IN IF svg.dom = "svg" THEN Validated(w5, h5) ELSE NoSize

\* Nothing thrown inside leaves the outer try: the call always returns.
parseSvgDimensions(svg) ==
  Returns(IF FxpBranch(svg) # NoSize THEN FxpBranch(svg) ELSE DomBranch(svg))

\* The parsers' outcomes by kind of markup.
ParserOutcomes ==
  [markup : {"wellFormed"}, dom : {"svg"}, fxp : {"absent", "svg"}]
  \cup [markup : {"noRoot"}, dom : {"none"}, fxp : {"absent", "noSvg"}]
  \cup [markup : {"malformed"}, dom : {"svg", "none"}, fxp : {"absent", "throws", "noSvg", "svg"}]

SvgAttributes ==
  [width : {"", "100", "0", "0.4", "60000", "50%", "abc"},
   height : {"", "50", "0", "2.5px"},
   viewBox : {"", "0 0 120 80", "0,0,120,80", "0 0 -5 10", "7"},
   style : {"", "width: 30px; height: 20px", "line-height:7"},
   cssWidth : {"", "30px"}, cssHeight : {""},
   bbox : {NoSize, <<205, 95>>}]

SvgInputs ==
  {[markup |-> p.markup, dom |-> p.dom, fxp |-> p.fxp, width |-> a.width, height |-> a.height,
    viewBox |-> a.viewBox, style |-> a.style, cssWidth |-> a.cssWidth,
    cssHeight |-> a.cssHeight, bbox |-> a.bbox] : p \in ParserOutcomes, a \in SvgAttributes}

InitSvg == NoSweep /\ phase = "svg" /\ input \in SvgInputs /\ output = <<>>

ParseSvg ==
  /\ phase = "svg" /\ output = <<>>
  /\ output' = <<parseSvgDimensions(input)>>
  /\ UNCHANGED <<sweepVars, input>>

SpecSvg == InitSvg /\ [][ParseSvg]_vars

SvgParsed == phase = "svg" /\ output # <<>>

\* C18: parseSvgDimensions returns {0, 0} or a width and a height that are
\* both integers from 1 to 50000, never exactly one zero; and markup that is
\* malformed or has no svg root gives {0, 0}, no error being raised.
C18_SvgSizeRange ==
  SvgParsed =>
    /\ ~output[1].threw
    /\ \/ output[1].value = NoSize
       \/ output[1].value[1] \in 1..50000 /\ output[1].value[2] \in 1..50000
    /\ input.markup \in {"malformed", "noRoot"} => output[1].value = NoSize

\* A viewBox of four numbers, and the size its third and fourth give.
HasFourNumbers(viewBox) ==
  /\ Len(Words(viewBox)) >= 4
  /\ \A k \in 1..4 : parseFloatText(Words(viewBox)[k]).t = "num"

ViewBoxSize(viewBox) ==
  Validated(parseFloatText(Words(viewBox)[3]), parseFloatText(Words(viewBox)[4]))

\* C25: on markup with an svg root, a width and a height attribute that are
\* both present give the size; when either is missing and the viewBox has
\* four numbers, width and height are both the viewBox's third and fourth;
\* a root with viewBox "0 0 120 80" and no width or height gives {120, 80}.
C25_SvgSizeOrder ==
  (SvgParsed /\ input.dom = "svg") =>
    LET width  == AttributeNumber(input.width)
        height == AttributeNumber(input.height)
    IN /\ (Truthy(width) /\ Truthy(height))
            => output[1].value = Validated(width, height)
       /\ (~(Truthy(width) /\ Truthy(height)) /\ HasFourNumbers(input.viewBox))
            => output[1].value = ViewBoxSize(input.viewBox)
       /\ (input.width = "" /\ input.height = "" /\ input.viewBox = "0 0 120 80")
            => output[1].value = <<120, 80>>

(***************************************************************************)
(* Two sweeps of one page: the load listener's sweep, then the sweep of    *)
(* the MutationObserver callback after the DOM changed.  Each call of      *)
(* extractImages has its own `images` array and its own tasks; `output`    *)
(* keeps those of the earlier call, [images, seen, tasks], once a later    *)
(* call has taken place.  localStorage is the one thing the calls share.   *)
(***************************************************************************)
StaleElements ==
  { Img("http://h/d", "H"),
    [Img("http://h/d", "H") EXCEPT !.natural = <<100, 100>>],
    [Img("http://h/d", "H") EXCEPT !.cls = "icon svg"],
    Img("http://h/c.svg", "S"),
    Element("video", "//["),
    Background(<<"http://h/x.Svg">>) }

StaleDocuments == {<<>>} \cup {<<el>> : el \in StaleElements}

NoEarlierSweep == [images |-> <<>>, seen |-> {}, tasks |-> <<>>]

InitResweep ==
  /\ doc \in StaleDocuments
  /\ phase = "init"
  /\ images = <<>>
  /\ result = NoResult
  /\ seenUrls = {}
  /\ tasks = <<>>
  /\ stored = NoSlot
  /\ input = ""
  /\ output = NoEarlierSweep

\* window 'load': extractImages(), then setItem.
LoadSweep ==
  /\ output = NoEarlierSweep
  /\ StoringSweep

\* The DOM changes and the observer's callback runs: extractImages() builds
\* a new array, the slot is set to its serialisation, and the callbacks of
\* the earlier call go on holding the earlier array.
ObserverSweep ==
  /\ phase = "swept"
  /\ \E d \in StaleDocuments :
       /\ doc' = d
       /\ images' = extractImages(d).images
       /\ result' = extractImages(d).result
       /\ seenUrls' = extractImages(d).seen
       /\ tasks' = extractImages(d).tasks
       /\ stored' = Serialized(extractImages(d))
  /\ output' = [images |-> images, seen |-> seenUrls, tasks |-> tasks]
  /\ phase' = "reswept"
  /\ UNCHANGED input

\* A task of the latest call settles and its callback runs.
CurrentTaskSettles ==
  /\ phase \in {"swept", "reswept"}
  /\ \E i \in 1..Len(tasks) :
       /\ ~tasks[i].done
       /\ \E o \in OutcomesFor(tasks[i]) :
            TaskSettles(i, Settled(tasks[i], o), Callback(Env, Settled(tasks[i], o)))

\* A task of the earlier call settles: its callback reads and writes the
\* earlier call's array, and the slot as it is now.
StaleTaskSettles ==
  /\ phase = "reswept"
  /\ \E i \in 1..Len(output.tasks) :
       /\ ~output.tasks[i].done
       /\ \E o \in OutcomesFor(output.tasks[i]) :
            LET settled == Settled(output.tasks[i], o)
                env == Callback([images |-> output.images, seen |-> output.seen,
                                 stored |-> stored], settled)
            IN /\ output' = [images |-> env.images, seen |-> env.seen,
                             tasks |-> [output.tasks EXCEPT ![i] = settled]]
               /\ stored' = env.stored
  /\ UNCHANGED <<doc, phase, images, result, seenUrls, tasks, input>>

NextResweep ==
  \/ LoadSweep
  \/ ObserverSweep
  \/ CurrentTaskSettles
  \/ StaleTaskSettles

SpecResweep == InitResweep /\ [][NextResweep]_vars

\* The type and size of each stored record.
StoredTypeAndSize(slot) == TypeAndSize(slot.recs)

\* C22: the completion of a task of the earlier sweep, after a later sweep
\* replaced the records, changes neither the later sweep's records nor the
\* type, width or height of any record in the slot.
C22_StaleTaskHarmless ==
  [][(phase = "reswept" /\ output'.tasks # output.tasks)
       => /\ images' = images
          /\ stored'.kind = stored.kind
          /\ StoredTypeAndSize(stored') = StoredTypeAndSize(stored)]_vars

\* A sweep of the load listener or of the observer has just stored its list.
SweepStored == phase' # phase /\ phase' \in {"swept", "reswept"}

\* C23: after each sweep of the load listener or of the observer the slot
\* holds the serialisation of exactly the list that sweep returned, in place
\* of whatever it held, so the slot parses to a list from the first sweep on.
C23_SlotHoldsReturnedList ==
  /\ [][SweepStored => stored' = ListSlot(Returned')]_vars
  /\ [](phase \in {"swept", "reswept"} => stored.kind = "list")

(***************************************************************************)
(* The content script executed several times in one page context.  Each    *)
(* execution runs the top-level statements of content.js again in the same *)
(* isolated world.  output is [executions, messageListeners,               *)
(* loadListeners, observers, loaded, event]: how often the script ran, the *)
(* listeners and observers registered so far, whether 'load' has fired,    *)
(* and what the last event caused, [kind, sweeps, responses, writes].      *)
(***************************************************************************)
MaxInjections == 3

NoEvent == [kind |-> "none", sweeps |-> 0, responses |-> 0, writes |-> 0]

NoScript ==
  [executions |-> 0, messageListeners |-> 0, loadListeners |-> 0, observers |-> 0,
   loaded |-> FALSE, event |-> NoEvent]

\* The page before and after its image has loaded, and an empty page.
InjectDocuments ==
  {<<>>, <<Img("http://h/d", "H")>>, <<[Img("http://h/d", "H") EXCEPT !.natural = <<100, 100>>]>>}

InitInject ==
  /\ doc \in InjectDocuments
  /\ phase = "page"
  /\ images = <<>>
  /\ result = NoResult
  /\ seenUrls = {}
  /\ tasks = <<>>
  /\ stored = NoSlot
  /\ input = ""
  /\ output = NoScript

\* A plausible slip: the observer is created without the guard.
InstallObserverUnguarded(observers) == observers + 1

\* if (!window.imageListObserver) { window.imageListObserver = new ... }
InstallObserver(observers) == IF observers = 0 THEN 1 ELSE observers

\* chrome.scripting.executeScript({files: ['content.js']}), or the first run
\* of the script: addListener, addEventListener and the guarded observer.
ScriptRuns ==
  /\ output.executions < MaxInjections
  /\ output' = [output EXCEPT !.executions = @ + 1,
                              !.messageListeners = @ + 1,
                              !.loadListeners = IF output.loaded THEN @ ELSE @ + 1,
                              !.observers = InstallObserver(@),
                              !.event = NoEvent]
  /\ UNCHANGED <<doc, phase, images, result, seenUrls, tasks, stored, input>>

\* q followed by itself, n times over.
Repeat(q, n) == [i \in 1..(n * Len(q)) |-> q[((i - 1) % Len(q)) + 1]]

\* n callbacks each call extractImages() on document d, which gives sw; those
\* that store set the slot.  The records kept are those of the last call;
\* the tasks are those all n calls launched.
CallbacksSweep(d, sw, n, stores) ==
  /\ doc' = d
  /\ IF n = 0
     THEN UNCHANGED <<images, result, seenUrls, tasks, stored>>
     ELSE /\ images' = sw.images
          /\ result' = sw.result
          /\ seenUrls' = sw.seen
          /\ tasks' = Repeat(sw.tasks, n)
          /\ stored' = IF stores THEN Serialized(sw) ELSE stored
  /\ UNCHANGED <<phase, input>>

\* One {action: 'extractImages'} message is dispatched to every listener
\* registered with chrome.runtime.onMessage.
ExtractMessage ==
  /\ CallbacksSweep(doc, extractImages(doc), output.messageListeners, FALSE)
  /\ output' = [output EXCEPT !.event =
       [kind |-> "message", sweeps |-> output.messageListeners,
        responses |-> output.messageListeners, writes |-> 0]]

\* The window's load event runs every load listener registered before it.
LoadEvent ==
  /\ ~output.loaded
  /\ CallbacksSweep(doc, extractImages(doc), output.loadListeners, TRUE)
  /\ output' = [output EXCEPT !.loaded = TRUE, !.event =
       [kind |-> "load", sweeps |-> output.loadListeners,
        responses |-> 0, writes |-> output.loadListeners]]

\* One batch of DOM mutations is delivered to every observer.
MutationBatch ==
  /\ \E d \in InjectDocuments :
       CallbacksSweep(d, extractImages(d), output.observers, TRUE)
  /\ output' = [output EXCEPT !.event =
       [kind |-> "mutation", sweeps |-> output.observers,
        responses |-> 0, writes |-> output.observers]]

NextInject ==
  \/ ScriptRuns
  \/ ExtractMessage
  \/ LoadEvent
  \/ MutationBatch

SpecInject == InitInject /\ [][NextInject]_vars

\* C26: however often the content script has been executed, at most one
\* mutation observer is installed, and one batch of DOM mutations causes
\* exactly one sweep and one write of the slot.
C26_OneObserver ==
  phase = "page" =>
    /\ output.observers <= 1
    /\ output.executions >= 1 => output.observers = 1
    /\ (output.executions >= 1 /\ output.event.kind = "mutation")
         => output.event.sweeps = 1 /\ output.event.writes = 1

\* After a second execution of the script a batch of mutations has caused
\* one sweep, whose list is in the slot.
C26_Witness ==
  /\ phase = "page" /\ output.executions >= 2
  /\ output.event.kind = "mutation" /\ output.event.sweeps = 1
  /\ stored = Serialized(extractImages(doc))

\* C27: once the script has been injected n >= 1 times, one extractImages
\* message causes exactly one sweep and one call of sendResponse, and one
\* load event exactly one sweep, whatever n is.
C27_OneSweepPerRequest ==
  (phase = "page" /\ output.executions >= 1) =>
    /\ output.event.kind = "message"
         => output.event.sweeps = 1 /\ output.event.responses = 1
    /\ (output.event.kind = "load" /\ output.loadListeners >= 1)
         => output.event.sweeps = 1

(***************************************************************************)
(* downloadImage(url, filename) of the background script, await by await.  *)
(* input is [url, filename]; output is [calls, first, last, error]: the    *)
(* invocations of chrome.downloads.download so far, each [what, ok], the   *)
(* error the direct attempt threw, the error thrown last, and the error    *)
(* the promise rejected with.                                              *)
(***************************************************************************)
DownloadUrls == {"http://h/a.png", "http://h/", "a.png", "data:image/png;base64,AA"}

DownloadInputs == [url : DownloadUrls, filename : {"", "x.png"}]

NoDownload == [calls |-> <<>>, first |-> "", last |-> "", error |-> ""]

InitDownload ==
  /\ NoSweep
  /\ input \in DownloadInputs
  /\ phase = IF startsWith(input.url, "data:image/") THEN "data" ELSE "direct"
  /\ output = NoDownload

DownloadStep(nextPhase, nextOutput) ==
  /\ phase' = nextPhase
  /\ output' = nextOutput
  /\ UNCHANGED <<doc, images, result, seenUrls, tasks, stored, input>>

Invocation(what, ok) == [what |-> what, ok |-> ok]

\* filename || getFilenameFromUrl(url): new URL(url) throws a TypeError on a
\* url that is not absolute, before chrome.downloads.download is called.
FilenameThrows(request) == request.filename = "" /\ ~IsAbsolute(request.url)

\* A plausible slip: the error thrown last is the one passed on.
FinalErrorLatest(error, lastError) == lastError

\* throw error, in the catch of the direct attempt: the original error.
FinalError(error, lastError) == error

Rejected(st) == [st EXCEPT !.error = FinalError(st.first, st.last)]

\* The data URL branch: one download, whose rejection the outer catch
\* throws again.
DataDownloadSettles ==
  /\ phase = "data"
  /\ \E ok \in BOOLEAN :
       DownloadStep(IF ok THEN "resolved" ELSE "rejected",
         [output EXCEPT !.calls = Append(@, Invocation("data", ok)),
                        !.last = IF ok THEN @ ELSE "dataError",
                        !.error = IF ok THEN @ ELSE "dataError"])

\* The direct attempt.
DirectDownloadSettles ==
  /\ phase = "direct"
  /\ IF FilenameThrows(input)
     THEN DownloadStep("query", [output EXCEPT !.first = "TypeError", !.last = "TypeError"])
     ELSE \E ok \in BOOLEAN :
            DownloadStep(IF ok THEN "resolved" ELSE "query",
              [output EXCEPT !.calls = Append(@, Invocation("direct", ok)),
                             !.first = IF ok THEN @ ELSE "directError",
                             !.last = IF ok THEN @ ELSE "directError"])

\* await chrome.tabs.query(...): a tab, no tab, or a rejection.  Without a
\* tab the try block ends and the original error is thrown.
TabsQuerySettles ==
  /\ phase = "query"
  /\ \/ DownloadStep("message", output)
     \/ DownloadStep("rejected", Rejected(output))
     \/ DownloadStep("fetch", [output EXCEPT !.last = "queryError"])

\* The callback of chrome.tabs.sendMessage(tab.id, {action: 'getCachedImage'}).
CacheResponds ==
  /\ phase = "message"
  /\ \/ DownloadStep("cached", output)
     \/ DownloadStep("fetch", [output EXCEPT !.last = "cacheMiss"])

\* The download of the cached copy.
CachedDownloadSettles ==
  /\ phase = "cached"
  /\ \E ok \in BOOLEAN :
       DownloadStep(IF ok THEN "resolved" ELSE "fetch",
         [output EXCEPT !.calls = Append(@, Invocation("cached", ok)),
                        !.last = IF ok THEN @ ELSE "cachedError"])

\* await fetch(url, {mode: 'no-cors', cache: 'force-cache'}).
ProbeFetchSettles ==
  /\ phase = "fetch"
  /\ \E r \in AttemptOutcomes \ {"aborted"} :
       IF r \in {"ok", "opaque"} THEN DownloadStep("retry", output)
       ELSE DownloadStep("rejected",
              Rejected([output EXCEPT !.last = IF r = "rejected" THEN "fetchError" ELSE @]))

\* The direct download once more.
RetryDownloadSettles ==
  /\ phase = "retry"
  /\ IF FilenameThrows(input)
     THEN DownloadStep("rejected", Rejected([output EXCEPT !.last = "TypeError"]))
     ELSE \E ok \in BOOLEAN :
            DownloadStep(IF ok THEN "resolved" ELSE "rejected",
              LET called == [output EXCEPT !.calls = Append(@, Invocation("direct", ok))]
              IN IF ok THEN called ELSE Rejected([called EXCEPT !.last = "retryError"]))

NextDownload ==
  \/ DataDownloadSettles
  \/ DirectDownloadSettles
  \/ TabsQuerySettles
  \/ CacheResponds
  \/ CachedDownloadSettles
  \/ ProbeFetchSettles
  \/ RetryDownloadSettles

SpecDownload == InitDownload /\ [][NextDownload]_vars

Succeeded(calls) == {k \in 1..Len(calls) : calls[k].ok}

\* The order the attempts are made in.
AttemptOrder == <<"direct", "cached", "direct">>

InAttemptOrder(calls) ==
  \E pick \in SUBSET (1..Len(AttemptOrder)) :
    /\ Cardinality(pick) = Len(calls)
    /\ \A k \in 1..Len(calls) :
         \E p \in pick : Cardinality({q \in pick : q <= p}) = k /\ AttemptOrder[p] = calls[k].what

\* C28: downloadImage resolves only when a download invocation has
\* succeeded, the last one made; for a URL that is no data URL the
\* invocations are the direct one, then the cached copy's, then the direct
\* one again, and a rejection carries the error of the direct attempt; for
\* a data URL there is exactly one invocation, whose error is the rejection.
C28_DownloadSettles ==
  /\ phase = "resolved" => Succeeded(output.calls) = {Len(output.calls)}
  /\ phase = "rejected" => Succeeded(output.calls) = {}
  /\ (phase \in {"resolved", "rejected"} /\ ~startsWith(input.url, "data:image/"))
       => /\ InAttemptOrder(output.calls)
          /\ phase = "rejected" => output.error = output.first /\ output.first # ""
  /\ (phase \in {"resolved", "rejected"} /\ startsWith(input.url, "data:image/"))
       => /\ Len(output.calls) = 1
          /\ phase = "rejected" => output.error = "dataError"

\* The direct download and the download of the cached copy failed, the
\* direct download after the fetch failed too, and the promise rejected.
C28_Witness ==
  /\ phase = "rejected"
  /\ output.calls = <<Invocation("direct", FALSE), Invocation("cached", FALSE),
                      Invocation("direct", FALSE)>>
  /\ output.error = "directError"

====
